---- MODULE Spec2Model ----
(***************************************************************************)
(* The MQTT client engine of docs/main.js (Paho.MQTT.ClientImpl): the      *)
(* connection state machine, the in-flight tables, the durable store and   *)
(* the message identifier allocator.                                       *)
(*                                                                         *)
(* The engine is single threaded: every action below is one handler run    *)
(* to completion (an API call, a socket event, a timer firing, a process   *)
(* restart).  Handlers are operators from an engine record to an engine    *)
(* record, so that a handler can call another one, and so that an          *)
(* exception (field "thrown") stops the operators that follow it until a   *)
(* try/catch of the source takes it.  Application callbacks are opaque:    *)
(* they are logged, return undefined and do not call back into the client. *)
(***************************************************************************)
EXTENDS Integers, Sequences, FiniteSets, TLC

\* ---------------------------------------------------------------- bounds
\* Stand-in for ClientImpl.prototype.maxMessageIdentifier (65536 in the
\* source), scaled down so that the allocator's wrap is reachable.
maxMessageIdentifier == 2
\* Requests (send / subscribe / unsubscribe calls) the application issues.
MaxRequests == 2
\* Largest message identifier the broker puts in an inbound packet.
MaxInboundId == 1
\* Packets the transport delivers in one message event.
MaxChunk == 2
\* Packets waiting in _msg_queue when a handler returns (the queue only grows
\* while the client is not connected): acknowledgments of inbound packets, and
\* the DISCONNECT packets of disconnect() calls made while connecting.
MaxQueue == 1
MaxDisconnects == 2
\* Candidate URIs in connectOptions.uris, when a list is given.
MaxUris == 2
\* Packets in the byte stream of a connection.
MaxPackets == 2
\* Payload bytes of the long PUBLISH: its remaining length takes two bytes.
MaxPayload == 123
\* Transports opened one after the other, each with its own byte stream.
MaxTransports == 2
\* Pinger objects replaced by _doConnect while their timer was set.
MaxOrphans == 1
\* Records in the shared localStorage.
MaxItems == 2

\* --------------------------------------------------------------- variables
VARIABLES
    connected,           \* ClientImpl.connected
    socket,              \* ClientImpl.socket: "none" | "new" (CONNECTING) | "open"
    connectOptions,      \* ClientImpl.connectOptions
    hostIndex,           \* ClientImpl.hostIndex
    msg_queue,           \* ClientImpl._msg_queue
    notify_msg_sent,     \* ClientImpl._notify_msg_sent, its single key "[object Object]"
    sentMessages,        \* ClientImpl._sentMessages: identifier -> wire message
    receivedMessages,    \* ClientImpl._receivedMessages: identifier -> wire message
    lsSent,              \* localStorage records "Sent:"+_localKey+identifier
    lsReceived,          \* localStorage records "Received:"+_localKey+identifier
    message_identifier,  \* ClientImpl._message_identifier
    sequence,            \* ClientImpl._sequence
    connectTimeout,      \* ClientImpl._connectTimeout is armed
    callbacks,           \* which of client.onMessageDelivered / onMessageArrived are set
    delivered,           \* onMessageDelivered calls per request uid (history, capped)
    requestBudget,       \* requests the application issues in this run (fixed)
    call,                \* what happened for the last accepted connect() (history, capped)
    operations,          \* subscribe / unsubscribe calls by uid: wireMessage.timeOut and
                         \* the callbacks invoked (history, capped)
    sendPinger,          \* ClientImpl.sendPinger: isReset, and whether its timer is set
    orphans,             \* Pinger objects the client no longer refers to whose timer
                         \* is still set: how many, by isReset
    receiveBuffer,       \* ClientImpl.receiveBuffer: bytes of an incomplete packet
    wire,                \* the byte stream of the connection: the packets the broker
                         \* sent, the bytes not yet delivered, the packets deframed
    localStorage,        \* the store shared by the clients of the page, by key: who
                         \* wrote the record, and the identifier in it
    storageOp,           \* the last operation on localStorage and the client that
                         \* made it (observation)
    queued,              \* the packets the last handler pushed on _msg_queue, in
                         \* order (observation)
    log                  \* what the last handler did, in order (observation)

vars == <<connected, socket, connectOptions, hostIndex, msg_queue, notify_msg_sent,
          sentMessages, receivedMessages, lsSent, lsReceived, message_identifier,
          sequence, connectTimeout, callbacks, delivered, requestBudget, call,
          operations, sendPinger, orphans, receiveBuffer, wire, localStorage,
          storageOp, queued, log>>

\* ------------------------------------------------------------- vocabulary
\* ERROR codes.  Undefined stands for a missing errorCode argument.
Undefined == 0 - 1
ERROR_OK == 0
ERROR_CONNECT_TIMEOUT == 1
ERROR_SUBSCRIBE_TIMEOUT == 2
ERROR_UNSUBSCRIBE_TIMEOUT == 3
ERROR_PING_TIMEOUT == 4
ERROR_INTERNAL_ERROR == 5
ERROR_CONNACK_RETURNCODE == 6
ERROR_SOCKET_ERROR == 7
ERROR_SOCKET_CLOSE == 8
ERROR_INVALID_MQTT_MESSAGE_TYPE == 16
SUBACK_FAILURE == 128

\* A function as a set of identifier -> value bindings.
Empty == [i \in {} |-> 0]
Put(f, k, v) == [i \in (DOMAIN f) \cup {k} |-> IF i = k THEN v ELSE f[i]]
Remove(f, k) == [i \in (DOMAIN f) \ {k} |-> f[i]]
RemoveAll(f, K) == [i \in (DOMAIN f) \ K |-> f[i]]

RECURSIVE Reverse(_)
Reverse(q) == IF q = <<>> THEN <<>> ELSE Append(Reverse(Tail(q)), Head(q))

\* A WireMessage.  uid names the request it was built for (0: none), sequence 0
\* is an undefined sequence; fields a packet type does not use are 0 / FALSE.
WireMessage(type, id, qos, rc, uid) ==
    [type |-> type, messageIdentifier |-> id, qos |-> qos, returnCode |-> rc,
     duplicate |-> FALSE, pubRecReceived |-> FALSE, sequence |-> 0, uid |-> uid]

\* Log entries: a handler invoked, a packet handled, a packet written to the
\* transport, an application callback called, an exception left uncaught.
Event(kind, name, m, code, s) ==
    [kind |-> kind, name |-> name, messageIdentifier |-> m.messageIdentifier,
     qos |-> m.qos, duplicate |-> m.duplicate, uid |-> m.uid, code |-> code,
     inSent |-> m.messageIdentifier \in DOMAIN s.sentMessages,
     inStore |-> m.messageIdentifier \in DOMAIN s.lsSent,
     inReceived |-> m.messageIdentifier \in DOMAIN s.receivedMessages,
     connected |-> s.connected, socket |-> s.socket,
     hostIndex |-> s.hostIndex, mqttVersion |-> s.connectOptions.mqttVersion,
     call |-> s.call]
NoMessage == WireMessage("NONE", 0, 0, 0, 0)
Log(s, kind, name, m, code) == [s EXCEPT !.log = Append(@, Event(kind, name, m, code, s))]
Throw(s) == [s EXCEPT !.thrown = TRUE]
\* History counters stop at 2: "more than once" is all that is told apart.
Once(n) == IF n < 2 THEN n + 1 ELSE n
\* A callback of the application: logged, and counted for onMessageDelivered,
\* for the onSuccess / onFailure of connectOptions and for those of a
\* subscribe / unsubscribe call; onConnectionLost ends the connection that a
\* CONNACK established.
Callback(s, name, m, code) ==
    LET t == Log(s, "cb", name, m, code) IN
    IF name = "onMessageDelivered" /\ m.uid \in DOMAIN s.delivered
    THEN [t EXCEPT !.delivered[m.uid] = Once(@)]
    ELSE IF name = "onSuccess" THEN [t EXCEPT !.call.onSuccess = Once(@)]
    ELSE IF name = "onFailure" THEN [t EXCEPT !.call.onFailure = Once(@)]
    ELSE IF name = "onConnectionLost" THEN [t EXCEPT !.call.established = FALSE]
    ELSE IF name \in {"subscribe.onSuccess", "unsubscribe.onSuccess"}
            /\ m.uid \in DOMAIN s.operations
    THEN [t EXCEPT !.operations[m.uid].onSuccess = Once(@)]
    ELSE IF name \in {"subscribe.onFailure", "unsubscribe.onFailure"}
            /\ m.uid \in DOMAIN s.operations
    THEN [t EXCEPT !.operations[m.uid].onFailure = Once(@)]
    ELSE t

\* The engine as one record, and back.
Engine ==
    [connected |-> connected, socket |-> socket, connectOptions |-> connectOptions,
     hostIndex |-> hostIndex, msg_queue |-> msg_queue, notify_msg_sent |-> notify_msg_sent,
     sentMessages |-> sentMessages, receivedMessages |-> receivedMessages,
     lsSent |-> lsSent, lsReceived |-> lsReceived,
     message_identifier |-> message_identifier, sequence |-> sequence,
     connectTimeout |-> connectTimeout, callbacks |-> callbacks,
     delivered |-> delivered, call |-> call, operations |-> operations,
     sendPinger |-> sendPinger, orphans |-> orphans, receiveBuffer |-> receiveBuffer,
     queued |-> <<>>, log |-> <<>>, thrown |-> FALSE]
Install(r) ==
    /\ connected' = r.connected
    /\ socket' = r.socket
    /\ connectOptions' = r.connectOptions
    /\ hostIndex' = r.hostIndex
    /\ msg_queue' = r.msg_queue
    /\ notify_msg_sent' = r.notify_msg_sent
    /\ sentMessages' = r.sentMessages
    /\ receivedMessages' = r.receivedMessages
    /\ lsSent' = r.lsSent
    /\ lsReceived' = r.lsReceived
    /\ message_identifier' = r.message_identifier
    /\ sequence' = r.sequence
    /\ connectTimeout' = r.connectTimeout
    /\ callbacks' = r.callbacks
    /\ delivered' = r.delivered
    /\ requestBudget' = requestBudget
    /\ call' = r.call
    /\ operations' = r.operations
    /\ sendPinger' = r.sendPinger
    /\ orphans' = r.orphans
    /\ receiveBuffer' = r.receiveBuffer
    /\ wire' = wire
    /\ localStorage' = localStorage
    /\ storageOp' = storageOp
    /\ queued' = r.queued
    /\ log' = r.log
\* A handler ran to completion and left the engine as r.
Bounded(r) ==
    LET disconnects == {i \in DOMAIN r.msg_queue : r.msg_queue[i].type = "DISCONNECT"}
    IN  /\ Cardinality(disconnects) <= MaxDisconnects
        /\ Len(r.msg_queue) - Cardinality(disconnects) <= MaxQueue
        /\ r.orphans[TRUE] + r.orphans[FALSE] <= MaxOrphans
Step(r) == Bounded(r) /\ Install(r)
\* An exception that reaches the caller of an API method or the event loop.
Uncaught(r) == IF r.thrown THEN Log([r EXCEPT !.thrown = FALSE], "throw", "uncaught", NoMessage, 0) ELSE r

\* ------------------------------------------------------ engine internals
\* new Pinger(client, window, keepAliveInterval): isReset = false, no timer.
Pinger(keepAliveInterval) ==
    [keepAliveInterval |-> keepAliveInterval, isReset |-> FALSE, armed |-> FALSE]
\* ClientImpl.prototype.sendPinger = null.  The field is read only after
\* _doConnect has set it.
NoPinger == Pinger(0)
NoOrphans == [isReset \in BOOLEAN |-> 0]
\* Pinger.reset: isReset = true, clearTimeout, and a new timer if the interval
\* is positive.
armedByReset_Always(pinger) == TRUE
armedByReset(pinger) == pinger.keepAliveInterval > 0
reset(s) ==
    [s EXCEPT !.sendPinger.isReset = TRUE, !.sendPinger.armed = armedByReset(s.sendPinger)]
\* this.sendPinger = new Pinger(...) in _doConnect: the Pinger replaced keeps
\* its timer, if it is set.
replacePinger(s) ==
    [s EXCEPT !.sendPinger = Pinger(s.connectOptions.keepAliveInterval),
              !.orphans = IF s.sendPinger.armed
                          THEN [@ EXCEPT ![s.sendPinger.isReset] = @ + 1]
                          ELSE @]
\* ClientImpl.prototype._doConnect: a new WebSocket (CONNECTING) and a new
\* connect Timeout.
\* wsurl is the index of the candidate in connectOptions.uris, Undefined for
\* this.uri.
doConnect(s, wsurl) ==
    Log([replacePinger(s) EXCEPT
             !.connected = FALSE, !.socket = "new", !.connectTimeout = TRUE,
             !.call.transports = IF @ <= 2 * MaxUris THEN @ + 1 ELSE @],
        "ws", "new WebSocket", NoMessage, wsurl)

\* this.connectOptions.uris && this.hostIndex < this.connectOptions.uris.length-1
moreCandidates_None(o, index) == FALSE
nextCandidate_Same(index) == index
\* this.hostIndex++
nextCandidate(index) == index + 1
moreCandidates(o, index) == o.uris > 0 /\ index < o.uris - 1
\* _disconnected: Clear message buffers.
clearBuffers_Keep(s) == s
clearBuffers(s) == [s EXCEPT !.msg_queue = <<>>, !.notify_msg_sent = "none"]
\* ClientImpl.prototype._disconnected(errorCode): the teardown routine.
disconnected(s, errorCode) ==
    LET o == s.connectOptions
        s1 == [clearBuffers(s) EXCEPT !.sendPinger.armed = FALSE,
                                      !.connectTimeout = FALSE, !.socket = "none"]
        code == IF errorCode = Undefined THEN ERROR_OK ELSE errorCode
    IN  IF moreCandidates(o, s1.hostIndex)
        THEN doConnect([s1 EXCEPT !.hostIndex = nextCandidate(@)],
                       nextCandidate(s1.hostIndex))
        ELSE IF s1.connected
        THEN Callback([s1 EXCEPT !.connected = FALSE], "onConnectionLost", NoMessage, code)
        ELSE IF o.mqttVersion = 4 /\ ~o.mqttVersionExplicit
        THEN doConnect([s1 EXCEPT !.connectOptions.mqttVersion = 3,
                                  !.hostIndex = IF o.uris > 0 THEN 0 ELSE @,
                                  !.call.downgrades = Once(@)],
                       IF o.uris > 0 THEN 0 ELSE Undefined)
        ELSE IF o.onFailure
        THEN Callback(s1, "onFailure", NoMessage, code)
        ELSE s1

\* Pinger.doPing of this.sendPinger, run when its timer fires: a ping timeout
\* if nothing has reset the Pinger since its last PINGREQ, otherwise
\* this._client.socket.send(pingReq) (which throws without an open socket) and
\* a new timer.
PingReq == WireMessage("PINGREQ", 0, 0, 0, 0)
doPing(s) ==
    LET s0 == [s EXCEPT !.sendPinger.armed = FALSE] IN
    IF ~s.sendPinger.isReset THEN disconnected(s0, ERROR_PING_TIMEOUT)
    ELSE LET s1 == [s0 EXCEPT !.sendPinger.isReset = FALSE] IN
         IF s1.socket # "open" THEN Throw(s1)
         ELSE [Log(s1, "tx", "PINGREQ", PingReq, 0) EXCEPT !.sendPinger.armed = TRUE]
\* Pinger.doPing of a Pinger that _doConnect has replaced: its _client is the
\* same client, with the socket and the state of the moment.
doPingOrphan(s, isReset) ==
    LET s0 == [s EXCEPT !.orphans[isReset] = @ - 1] IN
    IF ~isReset THEN disconnected(s0, ERROR_PING_TIMEOUT)
    ELSE IF s0.socket # "open" THEN Throw(s0)
    ELSE [Log(s0, "tx", "PINGREQ", PingReq, 0) EXCEPT !.orphans[FALSE] = @ + 1]

\* ClientImpl.prototype._socket_send: this.socket.send(wireMessage.encode()).
\* Without a socket the property access throws a TypeError; a WebSocket that is
\* still CONNECTING throws InvalidStateError from send().  After the send:
\* this.sendPinger.reset().
socket_send(s, wireMessage) ==
    IF s.socket # "open" THEN Throw(s)
    ELSE reset(Log(s, "tx", wireMessage.type, wireMessage, 0))

\* ClientImpl.prototype._process_queue.  reverse() works in place, so
\* this._msg_queue is the array "fifo" until _disconnected replaces it
\* ("same" tells whether it still is).
RECURSIVE process_queue_loop(_, _, _)
process_queue_loop(s, fifo, same) ==
    IF fifo = <<>> THEN s
    ELSE LET message == fifo[Len(fifo)]
             rest == SubSeq(fifo, 1, Len(fifo) - 1)
             s0 == IF same THEN [s EXCEPT !.msg_queue = rest] ELSE s
             s1 == socket_send(s0, message)
         IN  IF s1.thrown THEN s1
             ELSE IF s1.notify_msg_sent = "disconnected"
             THEN process_queue_loop(disconnected(s1, Undefined), rest, FALSE)
             ELSE process_queue_loop(s1, rest, same)
process_queue(s) ==
    LET fifo == Reverse(s.msg_queue) IN
    process_queue_loop([s EXCEPT !.msg_queue = fifo], fifo, TRUE)

\* ClientImpl.prototype._schedule_message
schedule_message(s, message) ==
    LET s1 == [s EXCEPT !.msg_queue = Append(@, message),
                        !.queued = Append(@, message)] IN
    IF s1.connected THEN process_queue(s1) ELSE s1

\* ClientImpl.prototype.store("Sent:", sentMessages[id]): the record written,
\* the sequence number given to a message that has none yet.
storeSent(s, id) ==
    LET m == s.sentMessages[id] IN
    IF m.type # "PUBLISH" THEN Throw(s)
    ELSE LET fresh == m.sequence = 0
             m2 == [m EXCEPT !.sequence = IF fresh THEN s.sequence + 1 ELSE @]
         IN  [s EXCEPT !.sequence = IF fresh THEN @ + 1 ELSE @,
                       !.sentMessages = Put(@, id, m2),
                       !.lsSent = Put(@, id, m2)]
\* ClientImpl.prototype.store("Received:", receivedMessages[id])
storeReceived(s, id) ==
    LET m == s.receivedMessages[id] IN
    IF m.type # "PUBLISH" THEN Throw(s)
    ELSE [s EXCEPT !.lsReceived = Put(@, id, m)]

\* The probing loop of _requires_ack: the first identifier from the counter on
\* that sentMessages does not hold.
RECURSIVE probe(_, _)
probe(sent, id) == IF id \in DOMAIN sent THEN probe(sent, id + 1) ELSE id
AllocatedId_NoProbe(s) == s.message_identifier
AllocatedId(s) == probe(s.sentMessages, s.message_identifier)

\* ClientImpl.prototype._requires_ack
requires_ack(s, wireMessage) ==
    IF Cardinality(DOMAIN s.sentMessages) > maxMessageIdentifier THEN Throw(s)
    ELSE LET id == AllocatedId(s)
             m == [wireMessage EXCEPT !.messageIdentifier = id]
             s1 == [s EXCEPT !.message_identifier = id,
                             !.sentMessages = Put(@, id, m)]
             s2 == IF m.type = "PUBLISH" THEN storeSent(s1, id) ELSE s1
         IN  IF s2.thrown THEN s2
             ELSE IF s2.message_identifier = maxMessageIdentifier
             THEN [s2 EXCEPT !.message_identifier = 1]
             ELSE s2

\* ------------------------------------------------------- inbound packets
\* ClientImpl.prototype._receiveMessage
receiveMessage(s, wireMessage) ==
    IF s.callbacks.onMessageArrived
    THEN Callback(s, "onMessageArrived", wireMessage, 0)
    ELSE s

\* ClientImpl.prototype._receivePublish
receivePublish(s, wireMessage) ==
    LET id == wireMessage.messageIdentifier IN
    CASE wireMessage.qos = 0 -> receiveMessage(s, wireMessage)
      [] wireMessage.qos = 1 ->
            LET s1 == schedule_message(s, WireMessage("PUBACK", id, 0, 0, 0)) IN
            IF s1.thrown THEN s1 ELSE receiveMessage(s1, wireMessage)
      [] wireMessage.qos = 2 ->
            LET s1 == [s EXCEPT !.receivedMessages = Put(@, id, wireMessage)]
                s2 == storeReceived(s1, id)
            IN  IF s2.thrown THEN s2
                ELSE schedule_message(s2, WireMessage("PUBREC", id, 0, 0, 0))
      [] OTHER -> Throw(s)

\* The array the CONNACK case builds with for-in: the identifiers of
\* sentMessages in ascending order.
RECURSIVE ascending(_)
ascending(S) ==
    IF S = {} THEN <<>>
    ELSE LET m == CHOOSE x \in S : \A y \in S : x <= y IN <<m>> \o ascending(S \ {m})
\* function(a,b) {return a.sequence - b.sequence;} is negative.  An entry
\* without a sequence (SUBSCRIBE, UNSUBSCRIBE) makes the difference NaN, which
\* sort treats as +0: neither operand is smaller.
Less(sent, x, y) ==
    /\ sent[x].sequence # 0
    /\ sent[y].sequence # 0
    /\ sent[x].sequence < sent[y].sequence
\* Array.prototype.sort as a linear insertion sort (V8 before 7.0, for short
\* arrays): an element moves left past every neighbour that is greater.
RECURSIVE insertLinear(_, _, _, _)
insertLinear(sent, a, element, j) ==
    IF j >= 1 /\ Less(sent, element, a[j])
    THEN insertLinear(sent, a, element, j - 1)
    ELSE SubSeq(a, 1, j) \o <<element>> \o SubSeq(a, j + 1, Len(a))
RECURSIVE insertionSort(_, _, _)
insertionSort(sent, done, rest) ==
    IF rest = <<>> THEN done
    ELSE insertionSort(sent, insertLinear(sent, done, Head(rest), Len(done)), Tail(rest))
\* Array.prototype.sort as TimSort on a short array (V8 from 7.0): the leading
\* run is found (and reversed if strictly descending), the rest is inserted by
\* binary search.
RECURSIVE runLength(_, _, _, _)
runLength(sent, a, descending, idx) ==
    IF idx > Len(a) THEN Len(a)
    ELSE IF Less(sent, a[idx], a[idx - 1]) = descending
         THEN runLength(sent, a, descending, idx + 1)
         ELSE idx - 1
RECURSIVE binarySearch(_, _, _, _, _)
binarySearch(sent, a, pivot, left, right) ==
    IF left >= right THEN left
    ELSE LET mid == left + ((right - left) \div 2) IN
         IF Less(sent, pivot, a[mid])
         THEN binarySearch(sent, a, pivot, left, mid)
         ELSE binarySearch(sent, a, pivot, mid + 1, right)
RECURSIVE binaryInsertion(_, _, _)
binaryInsertion(sent, a, start) ==
    IF start > Len(a) THEN a
    ELSE LET left == binarySearch(sent, a, a[start], 1, start)
             b == SubSeq(a, 1, left - 1) \o <<a[start]>>
                  \o SubSeq(a, left, start - 1) \o SubSeq(a, start + 1, Len(a))
         IN  binaryInsertion(sent, b, start + 1)
timSort(sent, a) ==
    IF Len(a) < 2 THEN a
    ELSE LET descending == Less(sent, a[2], a[1])
             n == runLength(sent, a, descending, 3)
             b == IF descending
                  THEN Reverse(SubSeq(a, 1, n)) \o SubSeq(a, n + 1, Len(a))
                  ELSE a
         IN  binaryInsertion(sent, b, n + 1)
\* sequencedMessages.sort(...): with entries that have no sequence the
\* comparator is inconsistent and the order is implementation defined; the
\* outcomes are those of the two algorithms above.
sortedBySequence(sent) ==
    {insertionSort(sent, <<>>, ascending(DOMAIN sent)),
     timSort(sent, ascending(DOMAIN sent))}

\* The packet the resend loop schedules for an entry of sentMessages: the
\* PUBREL once the PUBREC was received, the entry itself otherwise.
resumed_Publish(sentMessage) == sentMessage
resumed(sentMessage) ==
    IF sentMessage.type = "PUBLISH" /\ sentMessage.pubRecReceived
    THEN WireMessage("PUBREL", sentMessage.messageIdentifier, 0, 0, 0)
    ELSE sentMessage
\* The resend loop of the CONNACK case over the sorted identifiers.
RECURSIVE resend(_, _, _)
resend(s, sent, ids) ==
    IF ids = <<>> \/ s.thrown THEN s
    ELSE resend(schedule_message(s, resumed(sent[Head(ids)])), sent, Tail(ids))

\* case MESSAGE_TYPE.CONNACK, up to the return code test.
connackPurge(s) ==
    LET s1 == [s EXCEPT !.connectTimeout = FALSE] IN
    IF s.connectOptions.cleanSession
    THEN [s1 EXCEPT !.lsSent = RemoveAll(@, DOMAIN s.sentMessages),
                    !.sentMessages = Empty,
                    !.lsReceived = RemoveAll(@, DOMAIN s.receivedMessages),
                    !.receivedMessages = Empty]
    ELSE s1
endOfCandidates_Keep(o, index) == index
\* "Jump to the end of the list of uris and stop looking for a good host."
endOfCandidates(o, index) == IF o.uris > 0 THEN o.uris ELSE index
\* case MESSAGE_TYPE.CONNACK: the set of outcomes, one per outcome of the sort.
handleConnack(s, wireMessage) ==
    LET s2 == connackPurge(s) IN
    IF wireMessage.returnCode = 0
    THEN LET s3 == [s2 EXCEPT !.connected = TRUE,
                              !.hostIndex = endOfCandidates(s.connectOptions, @)]
         IN  { LET s4 == resend([s3 EXCEPT !.call.reached = TRUE,
                                           !.call.established = TRUE,
                                           !.call.succeeded = s.hostIndex],
                                s3.sentMessages, ids)
                   s5 == IF s4.thrown \/ ~s4.connectOptions.onSuccess THEN s4
                         ELSE Callback(s4, "onSuccess", NoMessage, 0)
               IN  IF s5.thrown THEN s5 ELSE process_queue(s5)
               : ids \in sortedBySequence(s3.sentMessages) }
    ELSE {disconnected(s2, ERROR_CONNACK_RETURNCODE)}

\* case MESSAGE_TYPE.PUBACK
handlePuback(s, wireMessage) ==
    LET id == wireMessage.messageIdentifier IN
    IF id \in DOMAIN s.sentMessages
    THEN LET sentMessage == s.sentMessages[id]
             s1 == [s EXCEPT !.sentMessages = Remove(@, id), !.lsSent = Remove(@, id)]
         IN  IF s.callbacks.onMessageDelivered
             THEN Callback(s1, "onMessageDelivered", sentMessage, 0)
             ELSE s1
    ELSE s

\* case MESSAGE_TYPE.PUBREC
handlePubrec(s, wireMessage) ==
    LET id == wireMessage.messageIdentifier IN
    IF id \in DOMAIN s.sentMessages
    THEN LET s1 == [s EXCEPT !.sentMessages[id].pubRecReceived = TRUE]
             s2 == storeSent(s1, id)
         IN  IF s2.thrown THEN s2
             ELSE schedule_message(s2, WireMessage("PUBREL", id, 0, 0, 0))
    ELSE s

\* delete this._receivedMessages[wireMessage.messageIdentifier]
forgetReceived_Keep(received, id) == received
forgetReceived(received, id) == Remove(received, id)
\* case MESSAGE_TYPE.PUBREL
handlePubrel(s, wireMessage) ==
    LET id == wireMessage.messageIdentifier
        s1 == [s EXCEPT !.lsReceived = Remove(@, id)]
        s2 == IF id \in DOMAIN s.receivedMessages
              THEN [receiveMessage(s1, s.receivedMessages[id])
                        EXCEPT !.receivedMessages = forgetReceived(@, id)]
              ELSE s1
    IN  schedule_message(s2, WireMessage("PUBCOMP", id, 0, 0, 0))

\* case MESSAGE_TYPE.PUBCOMP: sentMessage.payloadMessage of an undefined
\* sentMessage is a TypeError.
handlePubcomp(s, wireMessage) ==
    LET id == wireMessage.messageIdentifier
        s1 == [s EXCEPT !.sentMessages = Remove(@, id), !.lsSent = Remove(@, id)]
    IN  IF s.callbacks.onMessageDelivered
        THEN IF id \in DOMAIN s.sentMessages
             THEN Callback(s1, "onMessageDelivered", s.sentMessages[id], 0)
             ELSE Throw(s1)
        ELSE s1

\* sentMessage.timeOut.cancel(), if the message has a Timeout: clearTimeout
\* does nothing for a timer that has fired.
cancel_Never(s, sentMessage) == s
cancel(s, sentMessage) ==
    IF sentMessage.uid \in DOMAIN s.operations
       /\ s.operations[sentMessage.uid].timeOut = "armed"
    THEN [s EXCEPT !.operations[sentMessage.uid].timeOut = "cancelled"]
    ELSE s
\* The function given to setTimeout by Timeout: action.apply(client, args),
\* action being the onFailure of the subscribe / unsubscribe call.
doTimeout(s, uid) ==
    LET type == s.operations[uid].type
        s1 == [s EXCEPT !.operations[uid].timeOut = "fired"]
    IN  IF type = "SUBSCRIBE"
        THEN Callback(s1, "subscribe.onFailure", WireMessage(type, 0, 0, 0, uid),
                      ERROR_SUBSCRIBE_TIMEOUT)
        ELSE Callback(s1, "unsubscribe.onFailure", WireMessage(type, 0, 0, 0, uid),
                      ERROR_UNSUBSCRIBE_TIMEOUT)
\* case MESSAGE_TYPE.SUBACK: onSuccess / onFailure are properties of a
\* SUBSCRIBE message only.
handleSuback(s, wireMessage) ==
    LET id == wireMessage.messageIdentifier IN
    IF id \in DOMAIN s.sentMessages
    THEN LET sentMessage == s.sentMessages[id]
             s0 == cancel(s, sentMessage)
             s1 == IF sentMessage.type # "SUBSCRIBE" THEN s0
                   ELSE IF wireMessage.returnCode = SUBACK_FAILURE
                   THEN Callback(s0, "subscribe.onFailure", sentMessage, wireMessage.returnCode)
                   ELSE Callback(s0, "subscribe.onSuccess", sentMessage, wireMessage.returnCode)
         IN  [s1 EXCEPT !.sentMessages = Remove(@, id)]
    ELSE s

\* case MESSAGE_TYPE.UNSUBACK: callback is a property of an UNSUBSCRIBE
\* message only.
handleUnsuback(s, wireMessage) ==
    LET id == wireMessage.messageIdentifier IN
    IF id \in DOMAIN s.sentMessages
    THEN LET sentMessage == s.sentMessages[id]
             s0 == cancel(s, sentMessage)
             s1 == IF sentMessage.type = "UNSUBSCRIBE"
                   THEN Callback(s0, "unsubscribe.onSuccess", sentMessage, 0)
                   ELSE s0
         IN  [s1 EXCEPT !.sentMessages = Remove(@, id)]
    ELSE s

\* case MESSAGE_TYPE.DISCONNECT and default: "Clients do not expect to receive
\* disconnect packets."
unexpected_Ignored(s, wireMessage) == s
unexpected(s, wireMessage) == disconnected(s, ERROR_INVALID_MQTT_MESSAGE_TYPE)
\* The switch of ClientImpl.prototype._handleMessage.
handleSwitch(s, wireMessage) ==
    CASE wireMessage.type = "CONNACK" -> handleConnack(s, wireMessage)
      [] wireMessage.type = "PUBLISH" -> {receivePublish(s, wireMessage)}
      [] wireMessage.type = "PUBACK" -> {handlePuback(s, wireMessage)}
      [] wireMessage.type = "PUBREC" -> {handlePubrec(s, wireMessage)}
      [] wireMessage.type = "PUBREL" -> {handlePubrel(s, wireMessage)}
      [] wireMessage.type = "PUBCOMP" -> {handlePubcomp(s, wireMessage)}
      [] wireMessage.type = "SUBACK" -> {handleSuback(s, wireMessage)}
      [] wireMessage.type = "UNSUBACK" -> {handleUnsuback(s, wireMessage)}
      [] wireMessage.type = "PINGRESP" -> {reset(s)}
      [] OTHER -> {unexpected(s, wireMessage)}

\* ClientImpl.prototype._handleMessage: the switch inside try/catch.
handleMessage(s, wireMessage) ==
    { IF r.thrown
      THEN disconnected([r EXCEPT !.thrown = FALSE], ERROR_INTERNAL_ERROR)
      ELSE r
      : r \in handleSwitch(Log(s, "rx", wireMessage.type, wireMessage, wireMessage.returnCode),
                           wireMessage) }

\* The loop of ClientImpl.prototype._on_socket_message over the deframed
\* packets: every packet of the chunk is handled, whatever the earlier ones did.
RECURSIVE handleAll(_, _)
handleAll(S, messages) ==
    IF messages = <<>> THEN S
    ELSE handleAll(UNION {handleMessage(s, Head(messages)) : s \in S}, Tail(messages))

\* ------------------------------------------------------------ API calls
\* The options Client.connect hands to ClientImpl.connect: cleanSession and
\* mqttVersion defaulted, mqttVersionExplicit derived, hosts turned into uris
\* (uris is the length of the list, 0 without one).
ConnectOptions(cleanSession, uris, mqttVersion, explicit) ==
    [cleanSession |-> cleanSession, uris |-> uris, mqttVersion |-> mqttVersion,
     mqttVersionExplicit |-> explicit, keepAliveInterval |-> 0,
     onSuccess |-> TRUE, onFailure |-> TRUE]
\* connectOptions before the first connect call (never read by the engine).
NoConnectOptions == ConnectOptions(TRUE, 0, 3, TRUE)

\* A request the application issues gets the next uid, in issue order.
Requests(s) == Cardinality(DOMAIN s.delivered)
NewRequest(s) == [s EXCEPT !.delivered = Put(@, Requests(s) + 1, 0)]

\* A subscribe / unsubscribe call: its Timeout, if it asked for one, is armed,
\* and none of its callbacks has been invoked.
NewOperation(type, timeout) ==
    [type |-> type, timeOut |-> IF timeout THEN "armed" ELSE "none",
     onSuccess |-> 0, onFailure |-> 0]
\* Nothing has happened yet for a connect() call.
NoCall == [transports |-> 0, downgrades |-> 0, reached |-> FALSE, succeeded |-> Undefined,
           established |-> FALSE, onSuccess |-> 0, onFailure |-> 0]
\* ClientImpl.prototype.connect
connectRefused_ConnectedOnly(s) == s.connected
\* if (this.connected) throw ...; if (this.socket) throw ...
connectRefused(s) == s.connected \/ s.socket # "none"
connect(s, options) ==
    IF connectRefused(s) THEN Throw(s)
    ELSE doConnect([s EXCEPT !.connectOptions = options,
                             !.hostIndex = IF options.uris > 0 THEN 0 ELSE @,
                             !.call = NoCall],
                   IF options.uris > 0 THEN 0 ELSE Undefined)

\* ClientImpl.prototype.subscribe and ClientImpl.prototype.unsubscribe
\* (type is "SUBSCRIBE" or "UNSUBSCRIBE").
\* timeout tells whether subscribeOptions.timeout is given: the Timeout is
\* created before _requires_ack is called.
subscribe(s, type, timeout) ==
    IF ~s.connected THEN Throw(s)
    ELSE LET uid == Requests(s) + 1
             s0 == [NewRequest(s) EXCEPT
                       !.operations = Put(@, uid, NewOperation(type, timeout))]
             id == AllocatedId(s0)
             s1 == requires_ack(s0, WireMessage(type, 0, 0, 0, uid))
         IN  IF s1.thrown THEN s1 ELSE schedule_message(s1, s1.sentMessages[id])

\* ClientImpl.prototype.send.  For QoS 0 the result of calling
\* onMessageDelivered (undefined) is what is put in _notify_msg_sent.
send(s, qos) ==
    IF ~s.connected THEN Throw(s)
    ELSE LET s0 == NewRequest(s)
             wireMessage == WireMessage("PUBLISH", 0, qos, 0, Requests(s0))
         IN  IF qos > 0
             THEN LET id == AllocatedId(s0)
                      s1 == requires_ack(s0, wireMessage)
                  IN  IF s1.thrown THEN s1 ELSE schedule_message(s1, s1.sentMessages[id])
             ELSE IF s0.callbacks.onMessageDelivered
             THEN schedule_message(
                      [Callback(s0, "onMessageDelivered", wireMessage, 0)
                          EXCEPT !.notify_msg_sent = "none"],
                      wireMessage)
             ELSE schedule_message(s0, wireMessage)

\* ClientImpl.prototype.disconnect
disconnect(s) ==
    IF s.socket = "none" THEN Throw(s)
    ELSE schedule_message([s EXCEPT !.notify_msg_sent = "disconnected"],
                          WireMessage("DISCONNECT", 0, 0, 0, 0))

\* The ClientImpl constructor in a new process: fresh fields, then restore()
\* of every record of this client: a restored sent message is a duplicate.
restoreSent(ls) ==
    [i \in DOMAIN ls |-> [ls[i] EXCEPT !.duplicate = TRUE]]
ClientImpl(s) ==
    [s EXCEPT !.connected = FALSE, !.socket = "none",
              !.connectOptions = NoConnectOptions, !.hostIndex = 0,
              !.msg_queue = <<>>, !.notify_msg_sent = "none",
              !.sentMessages = restoreSent(s.lsSent),
              !.receivedMessages = s.lsReceived,
              !.message_identifier = 1, !.sequence = 0,
              !.connectTimeout = FALSE, !.call = NoCall, !.operations = Empty,
              !.sendPinger = NoPinger, !.orphans = NoOrphans, !.receiveBuffer = <<>>]

\* ----------------------------------------------------------------- inputs
InboundIds == 1..MaxInboundId
Connacks == {WireMessage("CONNACK", 0, 0, rc, 0) : rc \in {0, 5}}
\* Acknowledgments of outbound requests.
OutboundAcks ==
    {WireMessage(type, id, 0, 0, 0) :
        type \in {"PUBACK", "PUBREC", "PUBCOMP", "SUBACK", "UNSUBACK"}, id \in InboundIds}
\* The inbound half of the QoS handshakes.
InboundPublishes ==
    {WireMessage("PUBLISH", id, 2, 0, 0) : id \in InboundIds}
    \cup {WireMessage("PUBREL", id, 0, 0, 0) : id \in InboundIds}
Chunks(P) == UNION {[1..n -> P] : n \in 1..MaxChunk}
SessionOptions == {ConnectOptions(c, 0, 4, TRUE) : c \in BOOLEAN}
WithDelivered == [onMessageDelivered |-> TRUE, onMessageArrived |-> TRUE]

\* ---------------------------------------------------------------- actions
Start(h) == Log(Engine, "call", h, NoMessage, 0)

Fields ==
    /\ connected = FALSE
    /\ socket = "none"
    /\ connectOptions = NoConnectOptions
    /\ hostIndex = 0
    /\ msg_queue = <<>>
    /\ notify_msg_sent = "none"
    /\ sentMessages = Empty
    /\ receivedMessages = Empty
    /\ lsSent = Empty
    /\ lsReceived = Empty
    /\ message_identifier = 1
    /\ sequence = 0
    /\ connectTimeout = FALSE
    /\ callbacks = WithDelivered
    /\ delivered = Empty
    /\ call = NoCall
    /\ operations = Empty
    /\ sendPinger = NoPinger
    /\ orphans = NoOrphans
    /\ receiveBuffer = <<>>
    /\ queued = <<>>
    /\ log = <<>>

\* No byte stream: the specifications of the engine take the packets as
\* _deframeMessages returns them.
NoWire == [packets |-> <<>>, bytes |-> <<>>, handled |-> <<>>, last |-> 0, transport |-> 1]
\* No other client: the records of this client are lsSent and lsReceived.
NoStorageOp == [op |-> "none", client |-> <<>>, restored |-> {}]
OneClient == localStorage = Empty /\ storageOp = NoStorageOp
Constructed == Fields /\ wire = NoWire /\ OneClient

Init == Constructed /\ requestBudget = MaxRequests

Connect(options) ==
    LET r == Uncaught(connect(Start("connect"), options)) IN
    /\ Bounded(r)
    /\ Install(r)
Subscribe ==
    /\ Requests(Engine) < requestBudget
    /\ Step(Uncaught(subscribe(Start("subscribe"), "SUBSCRIBE", FALSE)))
Unsubscribe ==
    /\ Requests(Engine) < requestBudget
    /\ Step(Uncaught(subscribe(Start("unsubscribe"), "UNSUBSCRIBE", FALSE)))
\* subscribe / unsubscribe with subscribeOptions.timeout (and onFailure).
SubscribeTimed ==
    /\ Requests(Engine) < requestBudget
    /\ Step(Uncaught(subscribe(Start("subscribe"), "SUBSCRIBE", TRUE)))
UnsubscribeTimed ==
    /\ Requests(Engine) < requestBudget
    /\ Step(Uncaught(subscribe(Start("unsubscribe"), "UNSUBSCRIBE", TRUE)))
\* The Timeout of a subscribe / unsubscribe call fires: its action is the
\* onFailure of the call.
TimeoutFires(uid) ==
    /\ uid \in DOMAIN operations
    /\ operations[uid].timeOut = "armed"
    /\ Step(Uncaught(doTimeout(Start("timeOut"), uid)))
Send(qos) ==
    /\ Requests(Engine) < requestBudget
    /\ Step(Uncaught(send(Start("send"), qos)))
Disconnect ==
    LET r == Uncaught(disconnect(Start("disconnect"))) IN
    /\ Bounded(r)
    /\ Install(r)

\* ClientImpl.prototype._on_socket_open
OnSocketOpen ==
    /\ socket = "new"
    /\ Step(Uncaught(socket_send([Start("onopen") EXCEPT !.socket = "open"],
                                    WireMessage("CONNECT", 0, 0, 0, 0))))
\* ClientImpl.prototype._on_socket_message
OnSocketMessage(messages) ==
    /\ socket = "open"
    /\ \E r \in handleAll({Start("onmessage")}, messages) : Step(Uncaught(r))
\* ClientImpl.prototype._on_socket_error
OnSocketError ==
    /\ socket # "none"
    /\ Step(Uncaught(disconnected(Start("onerror"), ERROR_SOCKET_ERROR)))
\* ClientImpl.prototype._on_socket_close
OnSocketClose ==
    /\ socket # "none"
    /\ Step(Uncaught(disconnected(Start("onclose"), ERROR_SOCKET_CLOSE)))
\* The Timeout of _doConnect fires: _disconnected(CONNECT_TIMEOUT).
ConnectTimeoutFires ==
    /\ connectTimeout
    /\ \E r \in {Uncaught(disconnected([Start("connectTimeout") EXCEPT !.connectTimeout = FALSE],
                                        ERROR_CONNECT_TIMEOUT))} : Step(r)
\* The timer of this.sendPinger fires: a keepalive interval has elapsed since
\* the timer was set.
PingerFires ==
    /\ sendPinger.armed
    /\ Step(Uncaught(doPing(Start("doPing"))))
\* The timer of a replaced Pinger fires.
OrphanFires(isReset) ==
    /\ orphans[isReset] > 0
    /\ Step(Uncaught(doPingOrphan(Start("doPing (replaced Pinger)"), isReset)))
\* The page is reloaded: a new ClientImpl over the same localStorage.
Restart ==
    LET r == ClientImpl(Start("new ClientImpl")) IN
    /\ Bounded(r)
    /\ Install(r)

\* The outbound session: requests, their acknowledgments (one packet per
\* message event), reconnects and restarts.
Next ==
    \/ \E options \in SessionOptions : Connect(options)
    \/ Subscribe
    \/ Unsubscribe
    \/ \E qos \in 1..2 : Send(qos)
    \/ Disconnect
    \/ OnSocketOpen
    \/ \E m \in Connacks \cup OutboundAcks : OnSocketMessage(<<m>>)
    \/ OnSocketError
    \/ OnSocketClose
    \/ ConnectTimeoutFires
    \/ Restart

Spec == Init /\ [][Next]_vars

\* The allocator's session: QoS 1 publishes and subscriptions, their
\* acknowledgments, connection loss, reconnects that keep the session, restarts.
KeepSession == ConnectOptions(FALSE, 0, 4, TRUE)
AllocAcks ==
    {WireMessage(type, id, 0, 0, 0) : type \in {"PUBACK", "SUBACK"}, id \in InboundIds}
NextAlloc ==
    \/ Connect(KeepSession)
    \/ Subscribe
    \/ Send(1)
    \/ OnSocketOpen
    \/ OnSocketMessage(<<WireMessage("CONNACK", 0, 0, 0, 0)>>)
    \/ \E m \in AllocAcks : OnSocketMessage(<<m>>)
    \/ OnSocketClose
    \/ Restart

SpecAlloc == Init /\ [][NextAlloc]_vars

\* The replay session: as the allocator's session, with two more requests so
\* that a restored message, a subscription and a new message are outstanding
\* together when the client reconnects.
InitReplay == Constructed /\ requestBudget = MaxRequests + 2
NextReplay ==
    \/ Connect(KeepSession)
    \/ Subscribe
    \/ Send(1)
    \/ OnSocketOpen
    \/ OnSocketMessage(<<WireMessage("CONNACK", 0, 0, 0, 0)>>)
    \/ \E id \in InboundIds : OnSocketMessage(<<WireMessage("PUBACK", id, 0, 0, 0)>>)
    \/ OnSocketClose
    \/ Restart

SpecReplay == InitReplay /\ [][NextReplay]_vars

\* The inbound session: QoS 2 publishes and their releases arriving at any
\* time the transport is open (before the CONNACK, behind a packet that tore the
\* connection down), up to MaxChunk packets per message event.
InitInbound == Constructed /\ requestBudget = 0
NextInbound ==
    \/ \E options \in SessionOptions : Connect(options)
    \/ OnSocketOpen
    \/ \E messages \in Chunks(Connacks \cup InboundPublishes) : OnSocketMessage(messages)
    \/ OnSocketClose
    \/ Restart

SpecInbound == InitInbound /\ [][NextInbound]_vars

\* The application's session: every API call in every connection state, with
\* a broker that accepts the connect and a transport that may close.
NextApi ==
    \/ \E options \in SessionOptions : Connect(options)
    \/ Subscribe
    \/ Unsubscribe
    \/ \E qos \in 0..2 : Send(qos)
    \/ Disconnect
    \/ OnSocketOpen
    \/ OnSocketMessage(<<WireMessage("CONNACK", 0, 0, 0, 0)>>)
    \/ OnSocketClose

SpecApi == Init /\ [][NextApi]_vars

\* The arrivals: inbound PUBLISH packets of QoS 0 and 1 at any time the
\* transport is open, alone or behind the CONNACKs of the same message event
\* (a CONNACK that refuses, a CONNACK that accepts, then the PUBLISH).
ArrivingPublishes ==
    {WireMessage("PUBLISH", 0, 0, 0, 0)}
    \cup {WireMessage("PUBLISH", id, 1, 0, 0) : id \in InboundIds}
ArrivingChunks ==
    Chunks(Connacks \cup ArrivingPublishes)
    \cup {<<c1, c2, m>> : c1 \in Connacks, c2 \in Connacks, m \in ArrivingPublishes}
NextArrive ==
    \/ \E options \in SessionOptions : Connect(options)
    \/ Disconnect
    \/ OnSocketOpen
    \/ \E messages \in ArrivingChunks : OnSocketMessage(messages)
    \/ OnSocketClose

SpecArrive == InitInbound /\ [][NextArrive]_vars

\* The send queue's session: every call that enqueues a packet, in every
\* connection state, inbound packets whose handling enqueues an acknowledgment
\* (PUBLISH QoS 2: PUBREC, PUBREL: PUBCOMP, PUBREC: PUBREL), and CONNACKs that
\* replay the outstanding publishes.
QueuePackets ==
    {WireMessage("CONNACK", 0, 0, 0, 0)} \cup InboundPublishes
    \cup {WireMessage("PUBREC", id, 0, 0, 0) : id \in InboundIds}
NextQueue ==
    \/ \E options \in SessionOptions : Connect(options)
    \/ Subscribe
    \/ Unsubscribe
    \/ \E qos \in 1..2 : Send(qos)
    \/ Disconnect
    \/ OnSocketOpen
    \/ \E m \in QueuePackets : OnSocketMessage(<<m>>)
    \/ OnSocketClose

SpecQueue == Init /\ [][NextQueue]_vars

\* The session over a transport that delivers up to MaxChunk packets in one
\* message event: connects and disconnects, one QoS 1 publish, CONNACKs of
\* either outcome and the PUBACK.
ChunkedPackets ==
    Connacks \cup {WireMessage("PUBACK", id, 0, 0, 0) : id \in InboundIds}
NextChunked ==
    \/ \E options \in SessionOptions : Connect(options)
    \/ Send(1)
    \/ Disconnect
    \/ OnSocketOpen
    \/ \E messages \in Chunks(ChunkedPackets) : OnSocketMessage(messages)
    \/ OnSocketClose

SpecChunked == Init /\ [][NextChunked]_vars

\* The connecting session: connects with and without a list of candidate
\* URIs, with mqttVersion pinned or not, attempts that end with a CONNACK of
\* either outcome, a socket error or close, or the connect timeout.
CandidateOptions ==
    {ConnectOptions(FALSE, uris, 4, explicit) : uris \in {0, MaxUris}, explicit \in BOOLEAN}
    \cup {ConnectOptions(FALSE, uris, 3, TRUE) : uris \in {0, MaxUris}}
NextFailover ==
    \/ \E options \in CandidateOptions : Connect(options)
    \/ Disconnect
    \/ OnSocketOpen
    \/ \E messages \in Chunks(Connacks) : OnSocketMessage(messages)
    \/ OnSocketError
    \/ OnSocketClose
    \/ ConnectTimeoutFires

SpecFailover == Init /\ [][NextFailover]_vars

\* The connecting session with a message left outstanding by an earlier
\* connection.  Every attempt ends: if nothing else ends it (a CONNACK, a
\* socket error or close), the Timeout armed by _doConnect fires.
InitResolve == Constructed /\ requestBudget = 1
NextResolve ==
    \/ \E options \in CandidateOptions : Connect(options)
    \/ Send(1)
    \/ OnSocketOpen
    \/ \E messages \in Chunks(Connacks) : OnSocketMessage(messages)
    \/ OnSocketError
    \/ OnSocketClose
    \/ ConnectTimeoutFires

SpecResolve == InitResolve /\ [][NextResolve]_vars /\ WF_vars(ConnectTimeoutFires)
SpecFailoverFair == SpecFailover /\ WF_vars(ConnectTimeoutFires)

\* The subscribing session: subscribe and unsubscribe calls with a timeout,
\* their acknowledgments (granted or refused), acknowledgments of other kinds,
\* one packet per message event, and the timers firing at any moment.  Two
\* operations are issued, so that one can be pending while the other completes.
InitTimers == Constructed /\ requestBudget = 2
OperationIds == 1..MaxRequests
OperationAcks ==
    {WireMessage("SUBACK", id, 0, rc, 0) : id \in OperationIds, rc \in {0, SUBACK_FAILURE}}
    \cup {WireMessage(type, id, 0, 0, 0) : type \in {"UNSUBACK", "PUBACK"}, id \in OperationIds}
NextTimers ==
    \/ \E options \in SessionOptions : Connect(options)
    \/ SubscribeTimed
    \/ UnsubscribeTimed
    \/ OnSocketOpen
    \/ \E m \in {WireMessage("CONNACK", 0, 0, 0, 0)} \cup OperationAcks : OnSocketMessage(<<m>>)
    \/ \E uid \in OperationIds : TimeoutFires(uid)
    \/ OnSocketClose

SpecTimers == InitTimers /\ [][NextTimers]_vars

\* The idle session: a connection with or without keepalive, nothing sent by
\* the application, the broker answering pings or not, the transport closing,
\* and the Pinger timers firing whenever they are set.  Up to MaxChunk packets
\* per message event.
WithKeepAlive(options, keepAliveInterval) ==
    [options EXCEPT !.keepAliveInterval = keepAliveInterval]
KeepAliveOptions == {WithKeepAlive(KeepSession, k) : k \in {0, 1}}

\* The teardowns: connections with a keepalive, over one URI or a list of
\* candidates, with mqttVersion pinned or not, that carry QoS 1 publishes and
\* end by a socket error or close, the connect timeout or a ping timeout.
TeardownOptions == {WithKeepAlive(options, 1) : options \in CandidateOptions}
NextTeardown ==
    \/ \E options \in TeardownOptions : Connect(options)
    \/ Send(1)
    \/ Disconnect
    \/ OnSocketOpen
    \/ \E m \in Connacks : OnSocketMessage(<<m>>)
    \/ OnSocketError
    \/ OnSocketClose
    \/ ConnectTimeoutFires
    \/ PingerFires

SpecTeardown == Init /\ [][NextTeardown]_vars

PingResp == WireMessage("PINGRESP", 0, 0, 0, 0)
NextKeepAlive ==
    \/ \E options \in KeepAliveOptions : Connect(options)
    \/ Send(0)
    \/ OnSocketOpen
    \/ \E messages \in Chunks(Connacks \cup {PingResp}) : OnSocketMessage(messages)
    \/ PingerFires
    \/ \E isReset \in BOOLEAN : OrphanFires(isReset)
    \/ OnSocketClose

SpecKeepAlive == Init /\ [][NextKeepAlive]_vars

\* The same with one packet per message event.
NextPing ==
    \/ \E options \in KeepAliveOptions : Connect(options)
    \/ Send(0)
    \/ OnSocketOpen
    \/ \E m \in Connacks \cup {PingResp} : OnSocketMessage(<<m>>)
    \/ PingerFires
    \/ OnSocketClose

SpecPing == Init /\ [][NextPing]_vars

\* -------------------------------------------------------------- deframing
\* input[pos] of a Uint8Array (undefined beyond its end) and
\* input.subarray(begin, end), which clamps both indices.
byteAt(input, pos) == IF pos >= 0 /\ pos < Len(input) THEN input[pos + 1] ELSE Undefined
Clamp(n, length) == IF n < 0 THEN 0 ELSE IF n > length THEN length ELSE n
subarray(input, begin, end) ==
    SubSeq(input, Clamp(begin, Len(input)) + 1, Clamp(end, Len(input)))
\* NaN (here Undefined) if a byte is missing.
readUint16(buffer, offset) ==
    IF byteAt(buffer, offset) = Undefined \/ byteAt(buffer, offset + 1) = Undefined
    THEN Undefined
    ELSE (256 * byteAt(buffer, offset)) + byteAt(buffer, offset + 1)
writeUint16(input) == <<input \div 256, input % 256>>
\* A comparison with undefined or NaN is false.
Below(byte, n) == byte # Undefined /\ byte < n
\* String.fromCharCode(utf16), as the code units appended to the output: a
\* surrogate pair above 0xFFFF, ToUint16 of the number otherwise.
fromCharCode(utf16) ==
    IF utf16 > 65535
    THEN <<55296 + ((utf16 - 65536) \div 1024), 56320 + ((utf16 - 65536) % 1024)>>
    ELSE <<utf16 % 65536>>
\* parseUTF8(input, offset, length): the string as its UTF-16 code units, or
\* the exception MALFORMED_UTF when a byte of a multi-byte character is below
\* 0x80 or the first byte is 0xF8 or more (a missing byte is not detected: the
\* character is then NaN, code unit 0).
RECURSIVE parseUTF8_loop(_, _, _, _)
parseUTF8_loop(input, pos, end, output) ==
    IF pos >= end THEN [thrown |-> FALSE, output |-> output]
    ELSE LET byte1 == byteAt(input, pos)
             raw2 == byteAt(input, pos + 1)
             raw3 == byteAt(input, pos + 2)
             raw4 == byteAt(input, pos + 3)
             Char(missing, utf16) == IF missing THEN <<0>> ELSE fromCharCode(utf16)
             malformed == [thrown |-> TRUE, output |-> output]
         IN  IF Below(byte1, 128)
             THEN parseUTF8_loop(input, pos + 1, end, output \o fromCharCode(byte1))
             ELSE IF Below(raw2, 128) THEN malformed
             ELSE IF Below(byte1, 224)
             THEN parseUTF8_loop(input, pos + 2, end,
                      output \o Char(raw2 = Undefined, (64 * (byte1 - 192)) + (raw2 - 128)))
             ELSE IF Below(raw3, 128) THEN malformed
             ELSE IF Below(byte1, 240)
             THEN parseUTF8_loop(input, pos + 3, end,
                      output \o Char(Undefined \in {raw2, raw3},
                                     (4096 * (byte1 - 224)) + (64 * (raw2 - 128)) + (raw3 - 128)))
             ELSE IF Below(raw4, 128) THEN malformed
             ELSE IF Below(byte1, 248)
             THEN parseUTF8_loop(input, pos + 4, end,
                      output \o Char(Undefined \in {raw2, raw3, raw4},
                                     (262144 * (byte1 - 240)) + (4096 * (raw2 - 128))
                                        + (64 * (raw3 - 128)) + (raw4 - 128)))
             ELSE malformed
parseUTF8(input, offset, length) ==
    parseUTF8_loop(input, offset, IF length = Undefined THEN offset ELSE offset + length, <<>>)

\* A decoded WireMessage: the fields decodeMessage sets, by type.
Blank(type) ==
    [type |-> type, sessionPresent |-> FALSE, returnCode |-> Undefined,
     returnCodes |-> <<>>, messageIdentifier |-> Undefined, qos |-> Undefined,
     retained |-> FALSE, duplicate |-> FALSE, destinationName |-> <<>>, payload |-> <<>>]
TYPE_CONNACK == 2
TYPE_PUBLISH == 3
TYPE_PUBACK == 4
TYPE_SUBACK == 9
TYPE_UNSUBACK == 11
TYPE_PINGRESP == 13

\* decodeMessage: the remaining length (MBI format).  null: the input ends
\* inside the length.
RECURSIVE decodeLength(_, _, _, _)
decodeLength(input, pos, remLength, multiplier) ==
    IF pos = Len(input) THEN [null |-> TRUE, pos |-> pos, remLength |-> 0]
    ELSE LET digit == byteAt(input, pos)
             r == remLength + ((digit % 128) * multiplier)
         IN  IF digit \div 128 # 0
             THEN decodeLength(input, pos + 1, r, multiplier * 128)
             ELSE [null |-> FALSE, pos |-> pos + 1, remLength |-> r]
\* decodeMessage: the switch on the type.
decodeBody(type, messageInfo, input, pos, endPos) ==
    IF type = TYPE_CONNACK
    THEN [Blank(type) EXCEPT !.sessionPresent = (byteAt(input, pos) % 2 = 1),
                             !.returnCode = byteAt(input, pos + 1)]
    ELSE IF type = TYPE_PUBLISH
    THEN LET qos == (messageInfo \div 2) % 4
             len == readUint16(input, pos)
             idPos == pos + 2 + len
             payloadPos == IF qos > 0 THEN idPos + 2 ELSE idPos
         IN  [Blank(type) EXCEPT
                 !.qos = qos,
                 !.destinationName = parseUTF8(input, pos + 2, len).output,
                 !.messageIdentifier = IF qos > 0 THEN readUint16(input, idPos) ELSE @,
                 !.payload = subarray(input, payloadPos, endPos),
                 !.retained = (messageInfo % 2 = 1),
                 !.duplicate = ((messageInfo \div 8) % 2 = 1)]
    ELSE IF type \in {TYPE_PUBACK, 5, 6, 7, TYPE_UNSUBACK}
    THEN [Blank(type) EXCEPT !.messageIdentifier = readUint16(input, pos)]
    ELSE IF type = TYPE_SUBACK
    THEN [Blank(type) EXCEPT !.messageIdentifier = readUint16(input, pos),
                             !.returnCodes = subarray(input, pos + 2, endPos)]
    ELSE Blank(type)
\* decodeMessage(input, pos): [null, startingPos], [wireMessage, endPos], or
\* the exception of parseUTF8 for the topic of a PUBLISH.
notDecoded(startingPos) ==
    [null |-> TRUE, thrown |-> FALSE, wireMessage |-> Blank(0), pos |-> startingPos]
decodeMessage(input, pos) ==
    LET startingPos == pos
        first == byteAt(input, pos)
        type == first \div 16
        messageInfo == first % 16
        length == decodeLength(input, pos + 1, 0, 1)
        endPos == length.pos + length.remLength
    IN  IF length.null \/ endPos > Len(input) THEN notDecoded(startingPos)
        ELSE [null |-> FALSE,
              thrown |-> type = TYPE_PUBLISH
                         /\ parseUTF8(input, length.pos + 2, readUint16(input, length.pos)).thrown,
              wireMessage |-> decodeBody(type, messageInfo, input, length.pos, endPos),
              pos |-> endPos]

\* _deframeMessages: the while loop.
RECURSIVE deframeLoop(_, _, _)
deframeLoop(byteArray, offset, messages) ==
    IF offset < Len(byteArray)
    THEN LET result == decodeMessage(byteArray, offset) IN
         IF result.thrown THEN [thrown |-> TRUE, messages |-> messages, offset |-> offset]
         ELSE IF ~result.null
         THEN deframeLoop(byteArray, result.pos, Append(messages, result.wireMessage))
         ELSE [thrown |-> FALSE, messages |-> messages, offset |-> result.pos]
    ELSE [thrown |-> FALSE, messages |-> messages, offset |-> offset]
\* if (offset < byteArray.length) this.receiveBuffer = byteArray.subarray(offset)
retained_Dropped(byteArray, offset) == <<>>
retained(byteArray, offset) ==
    IF offset < Len(byteArray) THEN subarray(byteArray, offset, Len(byteArray)) ELSE <<>>
\* _deframeMessages(data), the buffered bytes first (and this.receiveBuffer
\* deleted), up to the catch: the packets and the new receiveBuffer, or the
\* exception caught.
deframeMessages(buffer, data) ==
    LET byteArray == buffer \o data
        r == deframeLoop(byteArray, 0, <<>>)
    IN  IF r.thrown THEN [thrown |-> TRUE, messages |-> <<>>, receiveBuffer |-> <<>>]
        ELSE [thrown |-> FALSE, messages |-> r.messages,
              receiveBuffer |-> retained(byteArray, r.offset)]

\* encodeMBI(number): the do loop, which stops after four bytes whatever is
\* left of the number (number >> 7 is number \div 128 for 0 <= number < 2^31).
RECURSIVE encodeMBI_loop(_, _)
encodeMBI_loop(number, numBytes) ==
    LET shifted == number \div 128
        digit == (number % 128) + (IF shifted > 0 THEN 128 ELSE 0)
    IN  IF shifted > 0 /\ numBytes + 1 < 4
        THEN <<digit>> \o encodeMBI_loop(shifted, numBytes + 1)
        ELSE <<digit>>
encodeMBI(number) == encodeMBI_loop(number, 0)
\* The wire format, as the broker writes it.
Body(p) ==
    IF p.type = TYPE_CONNACK
    THEN <<IF p.sessionPresent THEN 1 ELSE 0, p.returnCode>>
    ELSE IF p.type = TYPE_PUBLISH
    THEN writeUint16(Len(p.destinationName)) \o p.destinationName
         \o (IF p.qos > 0 THEN writeUint16(p.messageIdentifier) ELSE <<>>) \o p.payload
    ELSE IF p.type = TYPE_SUBACK
    THEN writeUint16(p.messageIdentifier) \o p.returnCodes
    ELSE IF p.type = TYPE_PINGRESP \/ p.messageIdentifier = Undefined THEN <<>>
    ELSE writeUint16(p.messageIdentifier)
Flags(p) ==
    IF p.type = TYPE_PUBLISH
    THEN (IF p.duplicate THEN 8 ELSE 0) + (2 * p.qos) + (IF p.retained THEN 1 ELSE 0)
    ELSE 0
Frame(p) == <<(16 * p.type) + Flags(p)>> \o encodeMBI(Len(Body(p))) \o Body(p)
RECURSIVE Frames(_)
Frames(ps) == IF ps = <<>> THEN <<>> ELSE Frame(Head(ps)) \o Frames(Tail(ps))

\* Well-formed packets: a CONNACK, acknowledgments whose identifier uses both
\* bytes, a packet with no body, and a PUBLISH whose remaining length does not
\* fit in one byte.
FramedPackets ==
    { [Blank(TYPE_CONNACK) EXCEPT !.sessionPresent = TRUE, !.returnCode = 5],
      [Blank(TYPE_PUBACK) EXCEPT !.messageIdentifier = 258],
      [Blank(TYPE_SUBACK) EXCEPT !.messageIdentifier = 1, !.returnCodes = <<SUBACK_FAILURE>>],
      Blank(TYPE_PINGRESP),
      [Blank(TYPE_PUBLISH) EXCEPT !.qos = 1, !.messageIdentifier = 513, !.retained = TRUE,
                                  !.destinationName = <<116>>,
                                  !.payload = [i \in 1..MaxPayload |-> i % 256]] }
\* The streams: up to MaxPackets packets, the long PUBLISH at most once.
Streams ==
    {ps \in UNION {[1..n -> FramedPackets] : n \in 1..MaxPackets} :
        Cardinality({i \in DOMAIN ps : ps[i].type = TYPE_PUBLISH}) <= 1}

\* The stream of the n-th transport: nothing delivered yet.
Stream(ps, n) ==
    [packets |-> ps, bytes |-> Frames(ps), handled |-> <<>>, last |-> 0, transport |-> n]
InitDeframe ==
    /\ Fields
    /\ OneClient
    /\ requestBudget = 0
    /\ wire \in {Stream(ps, 1) : ps \in Streams}
\* _on_socket_message: the transport delivers the next n bytes of the stream
\* and _deframeMessages turns them into packets.
OnSocketData(n) ==
    /\ n \in 1..Len(wire.bytes)
    /\ LET r == deframeMessages(receiveBuffer, SubSeq(wire.bytes, 1, n))
       IN  /\ receiveBuffer' = r.receiveBuffer
           /\ wire' = [wire EXCEPT !.bytes = SubSeq(@, n + 1, Len(@)),
                                   !.handled = @ \o r.messages,
                                   !.last = Len(r.messages)]
    /\ UNCHANGED <<connected, socket, connectOptions, hostIndex, msg_queue,
                   notify_msg_sent, sentMessages, receivedMessages, lsSent, lsReceived,
                   message_identifier, sequence, connectTimeout, callbacks, delivered,
                   requestBudget, call, operations, sendPinger, orphans, localStorage,
                   storageOp, queued, log>>
NextDeframe == \E n \in 1..(MaxPayload + 8) * MaxPackets : OnSocketData(n)

SpecDeframe == InitDeframe /\ [][NextDeframe]_vars

\* ------------------------------------------------------------ the codec
\* Strings are sequences of UTF-16 code units.
\* UTF8Length(input): the length in bytes of the string encoded in UTF-8.
RECURSIVE UTF8Length_loop(_, _)
UTF8Length_loop(input, i) ==
    IF i > Len(input) THEN 0
    ELSE LET charCode == input[i] IN
         IF charCode > 2047
         THEN IF 55296 <= charCode /\ charCode <= 56319
              THEN 4 + UTF8Length_loop(input, i + 2)
              ELSE 3 + UTF8Length_loop(input, i + 1)
         ELSE IF charCode > 127 THEN 2 + UTF8Length_loop(input, i + 1)
         ELSE 1 + UTF8Length_loop(input, i + 1)
UTF8Length_Units(input) == Len(input)
UTF8Length(input) == UTF8Length_loop(input, 1)
\* stringToUTF8(input, output, start): the bytes written from start on, or the
\* exception MALFORMED_UNICODE when the string ends in a high surrogate.
RECURSIVE stringToUTF8_loop(_, _, _)
stringToUTF8_loop(input, i, output) ==
    IF i > Len(input) THEN [thrown |-> FALSE, output |-> output]
    ELSE LET high == 55296 <= input[i] /\ input[i] <= 56319
             charCode == IF high /\ i < Len(input)
                         THEN ((input[i] - 55296) * 1024) + (input[i + 1] - 56320) + 65536
                         ELSE input[i]
             next == IF high THEN i + 2 ELSE i + 1
             bytes == IF charCode <= 127 THEN <<charCode>>
                      ELSE IF charCode <= 2047
                      THEN <<((charCode \div 64) % 32) + 192, (charCode % 64) + 128>>
                      ELSE IF charCode <= 65535
                      THEN <<((charCode \div 4096) % 16) + 224,
                             ((charCode \div 64) % 64) + 128, (charCode % 64) + 128>>
                      ELSE <<((charCode \div 262144) % 8) + 240,
                             ((charCode \div 4096) % 64) + 128,
                             ((charCode \div 64) % 64) + 128, (charCode % 64) + 128>>
         IN  IF high /\ i = Len(input) THEN [thrown |-> TRUE, output |-> output]
             ELSE stringToUTF8_loop(input, next, output \o bytes)
stringToUTF8(input) == stringToUTF8_loop(input, 1, <<>>)

\* new ArrayBuffer(length) viewed as a Uint8Array, and the writes of encode:
\* byteStream[pos++] = byte and byteStream.set(bytes, pos), a byte past the
\* end of the buffer is not written.  A stream is the buffer and pos.
ArrayBuffer(length) == [i \in 1..length |-> 0]
set(byteStream, bytes, pos) ==
    [i \in DOMAIN byteStream |->
        IF i > pos /\ i <= pos + Len(bytes) THEN bytes[i - pos] % 256 ELSE byteStream[i]]
write(stream, bytes) ==
    [stream EXCEPT !.buffer = set(@, bytes, stream.pos), !.pos = @ + Len(bytes)]
\* writeString(input, utf8Length, buffer, offset)
writeString(stream, input, utf8Length) ==
    LET s1 == write(stream, writeUint16(utf8Length)) IN
    [s1 EXCEPT !.buffer = set(@, stringToUTF8(input).output, s1.pos),
               !.pos = @ + utf8Length,
               !.thrown = @ \/ stringToUTF8(input).thrown]
MqttProtoIdentifierv3 == <<0, 6, 77, 81, 73, 115, 100, 112, 3>>
MqttProtoIdentifierv4 == <<0, 4, 77, 81, 84, 84, 4>>
MqttProtoIdentifier(mqttVersion) ==
    IF mqttVersion = 3 THEN MqttProtoIdentifierv3
    ELSE IF mqttVersion = 4 THEN MqttProtoIdentifierv4
    ELSE <<>>
\* A WireMessage to encode: the fields of a decoded one (for a PUBLISH those
\* of its payloadMessage) and the fields of CONNECT, SUBSCRIBE and
\* UNSUBSCRIBE.  userName and password are <<>> when undefined and <<string>>
\* otherwise; there is no willMessage.
Encodable(type) ==
    [type |-> type, sessionPresent |-> FALSE, returnCode |-> Undefined,
     returnCodes |-> <<>>, messageIdentifier |-> Undefined, qos |-> Undefined,
     retained |-> FALSE, duplicate |-> FALSE, destinationName |-> <<>>, payload |-> <<>>,
     topics |-> <<>>, requestedQos |-> <<>>, mqttVersion |-> 4, clientId |-> <<>>,
     cleanSession |-> FALSE, keepAliveInterval |-> 0, userName |-> <<>>, password |-> <<>>]
RECURSIVE SumOfLengths(_)
SumOfLengths(strings) ==
    IF strings = <<>> THEN 0
    ELSE UTF8Length(Head(strings)) + 2 + SumOfLengths(Tail(strings))
\* WireMessage.prototype.encode: the first byte of the fixed header.
encodeFirst(m) ==
    (16 * (m.type % 16))
    + (IF m.type \in {8, 10, 6} THEN 2
       ELSE IF m.type = TYPE_PUBLISH
       THEN (IF m.duplicate THEN 8 ELSE 0) + (2 * m.qos) + (IF m.retained THEN 1 ELSE 0)
       ELSE 0)
\* WireMessage.prototype.encode: the length of the variable header and payload.
encodeRemLength(m) ==
    (IF m.messageIdentifier # Undefined THEN 2 ELSE 0)
    + (IF m.type = 1
       THEN Len(MqttProtoIdentifier(m.mqttVersion)) + 3 + UTF8Length(m.clientId) + 2
            + SumOfLengths(m.userName) + SumOfLengths(m.password)
       ELSE IF m.type = 8 THEN SumOfLengths(m.topics) + Len(m.requestedQos)
       ELSE IF m.type = 10 THEN SumOfLengths(m.topics)
       ELSE IF m.type = TYPE_PUBLISH
       THEN UTF8Length(m.destinationName) + 2 + Len(m.payload)
       ELSE 0)
\* The loops over this.topics of SUBSCRIBE (one byte of requested QoS after
\* each topic) and UNSUBSCRIBE.
RECURSIVE writeTopics(_, _, _, _)
writeTopics(stream, m, i, withQos) ==
    IF i > Len(m.topics) THEN stream
    ELSE LET s1 == writeString(stream, m.topics[i], UTF8Length(m.topics[i]))
             s2 == IF withQos
                   THEN write(s1, <<IF i <= Len(m.requestedQos) THEN m.requestedQos[i] ELSE 0>>)
                   ELSE s1
         IN  writeTopics(s2, m, i + 1, withQos)
RECURSIVE writeStrings(_, _)
writeStrings(stream, strings) ==
    IF strings = <<>> THEN stream
    ELSE writeStrings(writeString(stream, Head(strings), UTF8Length(Head(strings))),
                      Tail(strings))
\* WireMessage.prototype.encode: the buffer, or the exception of stringToUTF8.
encode(m) ==
    LET remLength == encodeRemLength(m)
        mbi == encodeMBI(remLength)
        s0 == [buffer |-> set(ArrayBuffer(remLength + Len(mbi) + 1), <<encodeFirst(m)>> \o mbi, 0),
               pos |-> Len(mbi) + 1, thrown |-> FALSE]
        connectFlags == (IF m.cleanSession THEN 2 ELSE 0)
                        + (IF m.userName # <<>> THEN 128 ELSE 0)
                        + (IF m.password # <<>> THEN 64 ELSE 0)
        s1 == IF m.type = TYPE_PUBLISH
              THEN writeString(s0, m.destinationName, UTF8Length(m.destinationName))
              ELSE IF m.type = 1
              THEN write(write(write(s0, MqttProtoIdentifier(m.mqttVersion)), <<connectFlags>>),
                         writeUint16(m.keepAliveInterval))
              ELSE s0
        s2 == IF m.messageIdentifier # Undefined
              THEN write(s1, writeUint16(m.messageIdentifier))
              ELSE s1
        s3 == IF m.type = 1
              THEN writeStrings(writeStrings(writeString(s2, m.clientId, UTF8Length(m.clientId)),
                                             m.userName), m.password)
              ELSE IF m.type = TYPE_PUBLISH THEN write(s2, m.payload)
              ELSE IF m.type = 8 THEN writeTopics(s2, m, 1, TRUE)
              ELSE IF m.type = 10 THEN writeTopics(s2, m, 1, FALSE)
              ELSE s2
    IN  [thrown |-> s3.thrown, buffer |-> s3.buffer]

\* Valid WireMessages of every packet type.  Identifiers and lengths that use
\* one byte and both bytes, strings whose characters take one to four bytes
\* of UTF-8, a payload that makes the remaining length longer than one byte.
Identifiers == {1, 258, 65535}
Strings == {<<116>>, <<233>>, <<8364, 116>>, <<55357, 56832>>}
Payloads == {<<>>, <<0, 255>>, [i \in 1..MaxPayload |-> i % 256]}
ConnectMessages ==
    {[Encodable(1) EXCEPT !.mqttVersion = v, !.clientId = c, !.cleanSession = clean,
                          !.keepAliveInterval = k, !.userName = u, !.password = pw] :
        v \in {3, 4}, c \in {<<99>>, <<233>>}, clean \in BOOLEAN, k \in {0, 60},
        u \in {<<>>, <<(<<117>>)>>}, pw \in {<<>>, <<(<<112>>)>>}}
PublishMessages ==
    {[Encodable(TYPE_PUBLISH) EXCEPT !.qos = 0, !.retained = r, !.destinationName = topic,
                                     !.payload = payload] :
        r \in BOOLEAN, topic \in Strings, payload \in Payloads}
    \cup {[Encodable(TYPE_PUBLISH) EXCEPT !.qos = qos, !.messageIdentifier = id,
                                          !.retained = r, !.duplicate = d,
                                          !.destinationName = topic, !.payload = payload] :
            qos \in 1..2, id \in Identifiers, r \in BOOLEAN, d \in BOOLEAN,
            topic \in Strings, payload \in Payloads}
SubscribeMessages ==
    {[Encodable(8) EXCEPT !.messageIdentifier = id, !.topics = <<topic>>,
                          !.requestedQos = <<qos>>] :
        id \in Identifiers, topic \in Strings, qos \in 0..2}
    \cup {[Encodable(10) EXCEPT !.messageIdentifier = id, !.topics = topics] :
            id \in Identifiers, topics \in {<<(<<116>>)>>, <<(<<116>>), (<<233>>)>>}}
AckMessages ==
    {[Encodable(type) EXCEPT !.messageIdentifier = id] :
        type \in {TYPE_PUBACK, 5, 6, 7, TYPE_UNSUBACK}, id \in Identifiers}
BrokerMessages ==
    {[Encodable(TYPE_CONNACK) EXCEPT !.returnCode = rc, !.sessionPresent = sp] :
        rc \in {0, 5}, sp \in BOOLEAN}
    \cup {[Encodable(TYPE_SUBACK) EXCEPT !.messageIdentifier = id, !.returnCodes = <<rc>>] :
            id \in Identifiers, rc \in {0, SUBACK_FAILURE}}
ValidMessages ==
    ConnectMessages \cup PublishMessages \cup SubscribeMessages \cup AckMessages
    \cup BrokerMessages \cup {Encodable(type) : type \in {12, TYPE_PINGRESP, 14}}

\* A message to encode, its encoding, and what decodeMessage makes of it.
ToEncode(m) == [stage |-> "message", message |-> m, buffer |-> <<>>, decoded |-> notDecoded(0)]
InitCodec ==
    /\ Fields
    /\ OneClient
    /\ requestBudget = 0
    /\ wire \in {ToEncode(m) : m \in ValidMessages}
Unchanged ==
    UNCHANGED <<connected, socket, connectOptions, hostIndex, msg_queue,
                notify_msg_sent, sentMessages, receivedMessages, lsSent, lsReceived,
                message_identifier, sequence, connectTimeout, callbacks, delivered,
                requestBudget, call, operations, sendPinger, orphans, receiveBuffer,
                localStorage, storageOp, queued, log>>
\* wireMessage.encode()
Encode ==
    /\ wire.stage = "message"
    /\ ~encode(wire.message).thrown
    /\ wire' = [wire EXCEPT !.stage = "encoded", !.buffer = encode(wire.message).buffer]
    /\ Unchanged
\* decodeMessage(input, 0) of the encoding
Decode ==
    /\ wire.stage = "encoded"
    /\ wire' = [wire EXCEPT !.stage = "decoded", !.decoded = decodeMessage(wire.buffer, 0)]
    /\ Unchanged
NextCodec == Encode \/ Decode

SpecCodec == InitCodec /\ [][NextCodec]_vars

\* The remaining length on its own.  The numbers encoded: every combination
\* of the digits 0, 1 and 127 in the four base-128 positions, from 0 to
\* 268,435,455.  The length fields received: fields of one to five bytes, as a
\* broker may write them after the first byte of a PINGRESP.
Digits128 == {0, 1, 127}
Lengths ==
    {a + (128 * b) + (16384 * c) + (2097152 * d) :
        a \in Digits128, b \in Digits128, c \in Digits128, d \in Digits128}
ReceivedFields ==
    {<<0>>, <<127>>, <<128, 1>>, <<128, 0>>, <<255, 255, 255, 127>>,
     <<128, 128, 128, 128, 0>>, <<255, 255, 255, 255, 1>>, <<129, 128, 128, 128, 7>>}
InitLength ==
    /\ Fields
    /\ OneClient
    /\ requestBudget = 0
    /\ wire \in {[stage |-> "number", number |-> n, mbi |-> <<>>,
                   read |-> [null |-> TRUE, pos |-> 0, remLength |-> 0]] : n \in Lengths}
                \cup {[stage |-> "received", number |-> Undefined, mbi |-> field,
                       read |-> [null |-> TRUE, pos |-> 0, remLength |-> 0]] :
                          field \in ReceivedFields}
\* var mbi = encodeMBI(remLength)
EncodeLength ==
    /\ wire.stage = "number"
    /\ wire' = [wire EXCEPT !.stage = "encoded", !.mbi = encodeMBI(wire.number)]
    /\ Unchanged
\* decodeMessage: the length loop, from the byte after the first.
DecodeLength ==
    /\ wire.stage \in {"encoded", "received"}
    /\ wire' = [wire EXCEPT
                   !.stage = IF @ = "encoded" THEN "read back" ELSE "read",
                   !.read = decodeLength(<<16 * TYPE_PINGRESP>> \o wire.mbi, 1, 0, 1)]
    /\ Unchanged
NextLength == EncodeLength \/ DecodeLength

SpecLength == InitLength /\ [][NextLength]_vars

\* ----------------------------------------------- the engine over bytes
\* MESSAGE_TYPE, by value.
TypeName(type) ==
    CASE type = 1 -> "CONNECT" [] type = TYPE_CONNACK -> "CONNACK"
      [] type = TYPE_PUBLISH -> "PUBLISH" [] type = TYPE_PUBACK -> "PUBACK"
      [] type = 5 -> "PUBREC" [] type = 6 -> "PUBREL" [] type = 7 -> "PUBCOMP"
      [] type = 8 -> "SUBSCRIBE" [] type = TYPE_SUBACK -> "SUBACK"
      [] type = 10 -> "UNSUBSCRIBE" [] type = TYPE_UNSUBACK -> "UNSUBACK"
      [] type = 12 -> "PINGREQ" [] type = TYPE_PINGRESP -> "PINGRESP"
      [] type = 14 -> "DISCONNECT" [] OTHER -> "RESERVED"
\* The WireMessage decodeMessage built, as _handleMessage reads it: the
\* return code of a SUBACK is returnCode[0].
Packet(w) ==
    [WireMessage(TypeName(w.type),
                 IF w.messageIdentifier = Undefined THEN 0 ELSE w.messageIdentifier,
                 IF w.qos = Undefined THEN 0 ELSE w.qos,
                 IF w.type = TYPE_CONNACK THEN w.returnCode
                 ELSE IF w.type = TYPE_SUBACK /\ w.returnCodes # <<>> THEN w.returnCodes[1]
                 ELSE 0,
                 0)
        EXCEPT !.duplicate = w.duplicate]
Packets(ws) == [i \in DOMAIN ws |-> Packet(ws[i])]
\* ClientImpl.prototype._on_socket_message(event).  When _deframeMessages has
\* caught an exception it has called _disconnected and returns undefined:
\* messages.length is then a TypeError.
on_socket_message(s, data) ==
    LET d == deframeMessages(s.receiveBuffer, data)
        s1 == [s EXCEPT !.receiveBuffer = d.receiveBuffer]
    IN  IF d.thrown
        THEN {Throw(disconnected(s1, ERROR_INTERNAL_ERROR))}
        ELSE handleAll({s1}, Packets(d.messages))
\* The transport delivers the bytes data in one message event.
OnSocketBytes(data) ==
    /\ socket = "open"
    /\ \E r \in on_socket_message(Start("onmessage"), data) : Step(Uncaught(r))

\* The session over bytes: whole packets, among them packets of types a
\* client is never sent, a reserved type, and a PUBLISH whose topic is not
\* UTF-8 (0xC3 followed by 0x28).  A message event carries one packet, or up
\* to MaxChunk packets out of CONNACKs and a DISCONNECT.
MalformedPublish == <<48, 4, 0, 2, 195, 40>>
UnexpectedTypes == {0, 1, 8, 10, 12, 14, 15}
WirePackets ==
    { [Blank(TYPE_CONNACK) EXCEPT !.returnCode = rc] : rc \in {0, 5} }
    \cup { [Blank(TYPE_PUBACK) EXCEPT !.messageIdentifier = 1],
           [Blank(7) EXCEPT !.messageIdentifier = 1],
           [Blank(TYPE_PUBLISH) EXCEPT !.qos = 2, !.messageIdentifier = 1,
                                       !.destinationName = <<116>>, !.payload = <<1>>] }
    \cup { Blank(type) : type \in UnexpectedTypes }
WireFrames == {Frame(p) : p \in WirePackets} \cup {MalformedPublish}
RECURSIVE Concatenated(_)
Concatenated(frames) ==
    IF frames = <<>> THEN <<>> ELSE Head(frames) \o Concatenated(Tail(frames))
ChunkedFrames ==
    {Frame(p) : p \in {[Blank(TYPE_CONNACK) EXCEPT !.returnCode = rc] : rc \in {0, 5}}
                      \cup {Blank(14)}}
WireData == WireFrames \cup {Concatenated(frames) : frames \in Chunks(ChunkedFrames)}
InitWire == Constructed /\ requestBudget = 1
NextWire ==
    \/ \E options \in CandidateOptions : Connect(options)
    \/ Send(2)
    \/ OnSocketOpen
    \/ \E data \in WireData : OnSocketBytes(data)
    \/ OnSocketError
    \/ OnSocketClose
    \/ ConnectTimeoutFires

SpecWire == InitWire /\ [][NextWire]_vars

\* The transport is torn down and the next one is opened (reconnect, failover,
\* downgrade): the bytes not yet delivered are lost and the broker starts a new
\* stream.  Neither _disconnected nor _doConnect touches this.receiveBuffer.
NewStream(ps) ==
    /\ wire.transport < MaxTransports
    /\ wire' = Stream(ps, wire.transport + 1)
    /\ UNCHANGED <<connected, socket, connectOptions, hostIndex, msg_queue,
                   notify_msg_sent, sentMessages, receivedMessages, lsSent, lsReceived,
                   message_identifier, sequence, connectTimeout, callbacks, delivered,
                   requestBudget, call, operations, sendPinger, orphans, receiveBuffer,
                   localStorage, storageOp, queued, log>>
\* Streams of short packets, over successive transports.
ShortStreams == {ps \in Streams : \A i \in DOMAIN ps : ps[i].type # TYPE_PUBLISH}
InitTransports ==
    /\ Fields
    /\ OneClient
    /\ requestBudget = 0
    /\ wire \in {Stream(ps, 1) : ps \in ShortStreams}
NextTransports ==
    \/ \E n \in 1..5 * MaxPackets : OnSocketData(n)
    \/ \E ps \in ShortStreams : NewStream(ps)

SpecTransports == InitTransports /\ [][NextTransports]_vars

\* ------------------------------------------------- the shared store
\* Strings are sequences of characters.  String(number), in decimal.
Digits == <<"0", "1", "2", "3", "4", "5", "6", "7", "8", "9">>
RECURSIVE decimal(_)
decimal(n) == IF n < 10 THEN <<Digits[n + 1]>> ELSE Append(decimal(n \div 10), Digits[(n % 10) + 1])
MqttPath == <<"/", "m", "q", "t", "t">>
SentPrefix == <<"S", "e", "n", "t", ":">>
ReceivedPrefix == <<"R", "e", "c", "e", "i", "v", "e", "d", ":">>
\* key.indexOf(prefix) == 0
StartsWith(key, prefix) ==
    Len(key) >= Len(prefix) /\ SubSeq(key, 1, Len(prefix)) = prefix
\* The constructor arguments of a client.
Identity(host, port, path, clientId) ==
    [host |-> host, port |-> port, path |-> path, clientId |-> clientId]
\* this._localKey=host+":"+port+(path!="/mqtt"?":"+path:"")+":"+clientId+":"
localKey(c) ==
    c.host \o <<":">> \o decimal(c.port)
        \o (IF c.path # MqttPath THEN <<":">> \o c.path ELSE <<>>)
        \o <<":">> \o c.clientId \o <<":">>
\* The key of store(): prefix+this._localKey+wireMessage.messageIdentifier
itemKey(c, prefix, messageIdentifier) == prefix \o localKey(c) \o decimal(messageIdentifier)
\* The keys the constructor hands to restore().
restoredKeys(c, storage) ==
    {key \in DOMAIN storage : \/ StartsWith(key, SentPrefix \o localKey(c))
                              \/ StartsWith(key, ReceivedPrefix \o localKey(c))}

\* new ClientImpl(uri, host, port, path, clientId): the records restored.
NewClientImpl(c) ==
    /\ storageOp' = [op |-> "new", client |-> c,
                     restored |-> {localStorage[key] : key \in restoredKeys(c, localStorage)}]
    /\ UNCHANGED <<connected, socket, connectOptions, hostIndex, msg_queue,
                   notify_msg_sent, sentMessages, receivedMessages, lsSent, lsReceived,
                   message_identifier, sequence, connectTimeout, callbacks, delivered,
                   requestBudget, call, operations, sendPinger, orphans, receiveBuffer,
                   wire, localStorage, queued, log>>
\* Client c stores a message: localStorage.setItem(key, ...).
SetItem(c, prefix, messageIdentifier) ==
    /\ localStorage' = Put(localStorage, itemKey(c, prefix, messageIdentifier),
                           [owner |-> c, prefix |-> prefix,
                            messageIdentifier |-> messageIdentifier])
    /\ Cardinality(DOMAIN localStorage') <= MaxItems
    /\ storageOp' = [op |-> "setItem", client |-> c, restored |-> {}]
    /\ UNCHANGED <<connected, socket, connectOptions, hostIndex, msg_queue,
                   notify_msg_sent, sentMessages, receivedMessages, lsSent, lsReceived,
                   message_identifier, sequence, connectTimeout, callbacks, delivered,
                   requestBudget, call, operations, sendPinger, orphans, receiveBuffer,
                   wire, queued, log>>
\* Client c completes a message: localStorage.removeItem(key).
RemoveItem(c, prefix, messageIdentifier) ==
    /\ localStorage' = RemoveAll(localStorage, {itemKey(c, prefix, messageIdentifier)})
    /\ storageOp' = [op |-> "removeItem", client |-> c, restored |-> {}]
    /\ UNCHANGED <<connected, socket, connectOptions, hostIndex, msg_queue,
                   notify_msg_sent, sentMessages, receivedMessages, lsSent, lsReceived,
                   message_identifier, sequence, connectTimeout, callbacks, delivered,
                   requestBudget, call, operations, sendPinger, orphans, receiveBuffer,
                   wire, queued, log>>

\* The page: clients of one broker, with the default path or another, and
\* client identifiers with and without a colon.
Hosts == {<<"h">>}
Ports == {1}
Paths == {MqttPath, <<"/", "x">>}
ClientIds == {<<"c">>, <<"c", ":", "1">>, <<"/", "x", ":", "c">>}
Identities ==
    {Identity(host, port, path, clientId) :
        host \in Hosts, port \in Ports, path \in Paths, clientId \in ClientIds}
Prefixes == {SentPrefix, ReceivedPrefix}
InitStorage ==
    /\ Fields
    /\ wire = NoWire
    /\ requestBudget = 0
    /\ localStorage = Empty
    /\ storageOp = NoStorageOp
NextStorage ==
    \/ \E c \in Identities : NewClientImpl(c)
    \/ \E c \in Identities, prefix \in Prefixes, id \in 1..MaxItems : SetItem(c, prefix, id)
    \/ \E c \in Identities, prefix \in Prefixes, id \in 1..MaxItems : RemoveItem(c, prefix, id)

SpecStorage == InitStorage /\ [][NextStorage]_vars

\* ------------------------------------------------------ reading the log
\* The packet being handled when log[i] happened: the last "rx" before it.
RECURSIVE HandledAt(_, _)
HandledAt(l, i) ==
    IF i = 0 THEN Event("rx", "NONE", NoMessage, 0, Engine)
    ELSE IF l[i].kind = "rx" THEN l[i] ELSE HandledAt(l, i - 1)
Handler == IF log = <<>> THEN "none" ELSE log[1].name
IsDelivered(e, qos) == e.kind = "cb" /\ e.name = "onMessageDelivered" /\ e.qos = qos
IsTx(e, type) == e.kind = "tx" /\ e.name = type
IsRx(e, type) == e.kind = "rx" /\ e.name = type
\* The events of log after position i, up to the next packet handled.
RECURSIVE Segment(_, _)
Segment(l, i) ==
    IF i >= Len(l) \/ l[i + 1].kind = "rx" THEN <<>>
    ELSE <<l[i + 1]>> \o Segment(l, i + 1)
Count(l, Test(_)) == Cardinality({i \in DOMAIN l : Test(l[i])})

\* ------------------------------------------------------------------ C1
\* C1: onMessageDelivered is invoked for a message sent at QoS 1 at most once,
\* only while a PUBACK carrying its identifier is being handled, and when it is
\* invoked the identifier is in neither sentMessages nor the durable store.
C1_DeliveredOnlyOnPuback ==
    \A i \in DOMAIN log :
        IsDelivered(log[i], 1) =>
            /\ IsRx(HandledAt(log, i), "PUBACK")
            /\ HandledAt(log, i).messageIdentifier = log[i].messageIdentifier
            /\ ~log[i].inSent /\ ~log[i].inStore
            /\ delivered[log[i].uid] <= 1

\* ------------------------------------------------------------------ C2
\* C2: for a message sent at QoS 2, each PUBREC handled for its identifier
\* transmits exactly one PUBREL with that identifier, and onMessageDelivered is
\* invoked for it at most once, only while the PUBCOMP for its identifier is
\* being handled and after the entry left sentMessages and the durable store.
C2_DeliveredOnlyOnPubcomp ==
    /\ \A i \in DOMAIN log :
        IsDelivered(log[i], 2) =>
            /\ IsRx(HandledAt(log, i), "PUBCOMP")
            /\ HandledAt(log, i).messageIdentifier = log[i].messageIdentifier
            /\ ~log[i].inSent /\ ~log[i].inStore
            /\ delivered[log[i].uid] <= 1
    /\ \A i \in DOMAIN log :
        (/\ IsRx(log[i], "PUBREC") /\ log[i].inSent /\ log[i].connected
         /\ log[i].messageIdentifier \in DOMAIN sentMessages
         /\ sentMessages[log[i].messageIdentifier].type = "PUBLISH"
         /\ sentMessages[log[i].messageIdentifier].qos = 2) =>
            Count(Segment(log, i),
                  LAMBDA e : IsTx(e, "PUBREL")
                             /\ e.messageIdentifier = log[i].messageIdentifier) = 1

\* ------------------------------------------------------------------ C3
IsArrived(e) == e.kind = "cb" /\ e.name = "onMessageArrived"
IsLastRx(k) == \A j \in DOMAIN log : j > k => log[j].kind # "rx"
Attached(e) == e.connected /\ e.socket = "open"
TransmitsOnce(k, type) ==
    Count(Segment(log, k),
          LAMBDA e : IsTx(e, type) /\ e.messageIdentifier = log[k].messageIdentifier) = 1
\* The acknowledgment of the packet at log[k] is written once if the client is
\* connected with its transport attached; if the client is not connected
\* nothing is written and the acknowledgment is left at the end of the queue.
TransmitsOrQueues(k, type) ==
    /\ Attached(log[k]) => TransmitsOnce(k, type)
    /\ ~log[k].connected =>
        /\ Count(Segment(log, k), LAMBDA e : e.kind = "tx") = 0
        /\ IsLastRx(k) =>
            /\ msg_queue # <<>>
            /\ msg_queue[Len(msg_queue)].type = type
            /\ msg_queue[Len(msg_queue)].messageIdentifier = log[k].messageIdentifier
\* The inbound QoS 2 handshake, with Acknowledges(k, type) saying what becomes
\* of the PUBREC / PUBCOMP that answers the packet at log[k].
InboundQos2(Acknowledges(_, _)) ==
    \A k \in DOMAIN log :
        LET i == log[k].messageIdentifier IN
        /\ (IsRx(log[k], "PUBLISH") /\ log[k].qos = 2) =>
            /\ Count(Segment(log, k), IsArrived) = 0
            /\ Acknowledges(k, "PUBREC")
            /\ IsLastRx(k) => i \in DOMAIN receivedMessages /\ i \in DOMAIN lsReceived
        /\ IsRx(log[k], "PUBREL") =>
            /\ Count(Segment(log, k), IsArrived) = IF log[k].inReceived THEN 1 ELSE 0
            /\ \A e \in {Segment(log, k)[j] : j \in DOMAIN Segment(log, k)} :
                    IsArrived(e) => e.messageIdentifier = i
            /\ Acknowledges(k, "PUBCOMP")
            /\ IsLastRx(k) => i \notin DOMAIN receivedMessages /\ i \notin DOMAIN lsReceived
\* C3 (as stated): handling an inbound QoS 2 PUBLISH(i) stores it, transmits
\* PUBREC(i) and does not invoke onMessageArrived; a PUBREL(i) invokes
\* onMessageArrived exactly once if i is in receivedMessages (and removes the
\* entry) and not at all otherwise, and transmits PUBCOMP(i) either way.
C3_AlwaysTransmits == InboundQos2(TransmitsOnce)
\* C3 (amended): the same, with the PUBREC / PUBCOMP written to the transport
\* in that step only if the client is connected with its transport attached;
\* if the client is not connected the acknowledgment is only appended to the
\* send queue and nothing is written.
C3_InboundHandshake == InboundQos2(TransmitsOrQueues)
\* A PUBREL released a stored publish on a connected client, and: a QoS 2
\* PUBLISH was handled while the client was not connected.
C3_Witness ==
    \E k \in DOMAIN log :
        /\ IsRx(log[k], "PUBREL") /\ log[k].inReceived /\ Attached(log[k])
        /\ Count(Segment(log, k), IsArrived) = 1
C3_WitnessQueued ==
    \E k \in DOMAIN log :
        IsRx(log[k], "PUBLISH") /\ log[k].qos = 2 /\ ~log[k].connected

\* ------------------------------------------------------------------ C4
\* C4: on a connected client, handling a PUBACK, PUBREC, PUBCOMP, SUBACK or
\* UNSUBACK whose identifier is not in sentMessages changes nothing: no
\* callback, no packet written, no table or durable record changed, and the
\* connection is not torn down.
AbsentAckHandled ==
    /\ Len(log) >= 2
    /\ log[2].kind = "rx"
    /\ log[2].name \in {"PUBACK", "PUBREC", "PUBCOMP", "SUBACK", "UNSUBACK"}
    /\ ~log[2].inSent
    /\ log[2].connected
C4_AbsentAckIsNoOp ==
    [][AbsentAckHandled' =>
        /\ Len(log') = 2
        /\ UNCHANGED <<connected, socket, msg_queue, sentMessages, receivedMessages,
                       lsSent, lsReceived, delivered>>]_vars

\* ------------------------------------------------------------------ C5
\* C5: after a CONNACK with return code 0 is handled for a connect with
\* cleanSession = true, both in-flight tables are empty, the durable store
\* holds no Sent: or Received: record of this client, and nothing was replayed.
CleanConnackHandled ==
    /\ Len(log) >= 2
    /\ IsRx(log[2], "CONNACK")
    /\ log[2].code = 0
    /\ connectOptions.cleanSession
C5_CleanSessionEmptiesAll ==
    CleanConnackHandled =>
        /\ sentMessages = Empty /\ receivedMessages = Empty
        /\ lsSent = Empty /\ lsReceived = Empty
        /\ \A i \in DOMAIN log : ~IsTx(log[i], "PUBLISH") /\ ~IsTx(log[i], "PUBREL")

\* ------------------------------------------------------------------ C6
\* C6: a connect attempt with cleanSession = true that ends without success (a
\* CONNACK with a non-zero return code, a socket error or close, the connect
\* timeout) leaves both in-flight tables and their durable records unchanged.
FailedAttemptEnded ==
    /\ Len(log) >= 1
    /\ connectOptions.cleanSession
    /\ \/ Len(log) >= 2 /\ IsRx(log[2], "CONNACK") /\ log[2].code # 0 /\ ~log[2].connected
       \/ log[1].name \in {"onerror", "onclose", "connectTimeout"} /\ ~log[1].connected
C6_FailedConnectKeepsSession ==
    [][FailedAttemptEnded' =>
        UNCHANGED <<sentMessages, receivedMessages, lsSent, lsReceived>>]_vars

\* ------------------------------------------------------------------ C7
\* C7: when a CONNACK with return code 0 completes a connect with
\* cleanSession = false, the outstanding publishes are retransmitted in
\* ascending order of their sequence numbers, as PUBREL where the PUBREC had
\* been received and as PUBLISH otherwise.
ReplayHandled ==
    /\ Len(log) >= 2
    /\ IsRx(log[2], "CONNACK")
    /\ log[2].code = 0
    /\ ~log[2].connected
    /\ ~connectOptions.cleanSession
IsReplay(e) ==
    /\ e.kind = "tx"
    /\ e.name \in {"PUBLISH", "PUBREL"}
    /\ e.messageIdentifier \in DOMAIN sentMessages
    /\ sentMessages[e.messageIdentifier].type = "PUBLISH"
C7_ReplayInSequenceOrder ==
    ReplayHandled =>
        /\ \A i, j \in DOMAIN log :
            (i < j /\ IsReplay(log[i]) /\ IsReplay(log[j])) =>
                sentMessages[log[i].messageIdentifier].sequence
                    <= sentMessages[log[j].messageIdentifier].sequence
        /\ \A i \in DOMAIN log :
            IsReplay(log[i]) =>
                (log[i].name = "PUBREL") = sentMessages[log[i].messageIdentifier].pubRecReceived

\* ------------------------------------------------------------------ C8
\* C8: of any two outstanding outbound PUBLISH messages, the one the
\* application sent earlier has the smaller send sequence number, also when
\* the client was re-created in between and restored them from the store.
C8_SequenceFollowsSendOrder ==
    \A i, j \in DOMAIN sentMessages :
        (/\ sentMessages[i].type = "PUBLISH"
         /\ sentMessages[j].type = "PUBLISH"
         /\ sentMessages[i].uid < sentMessages[j].uid)
        => sentMessages[i].sequence < sentMessages[j].sequence

\* ------------------------------------------------------------------ C9
\* C9: no two outstanding outbound requests share a message identifier: every
\* entry of sentMessages sits under its own messageIdentifier, and no handler
\* of a client replaces the request held under an identifier by another
\* request (an identifier is given out only while no entry, restored ones
\* included, holds it, so it is reused only after its entry was removed).  A
\* re-created client builds its table anew from the store.
C9_NoSharedIdentifier ==
    [][/\ \A i \in DOMAIN sentMessages' : sentMessages'[i].messageIdentifier = i
       /\ Handler' # "new ClientImpl" =>
            \A i \in DOMAIN sentMessages \cap DOMAIN sentMessages' :
                sentMessages'[i].uid = sentMessages[i].uid]_vars
\* The allocator had to step over an entry restored from the store.
C9_Witness ==
    \E i, j \in DOMAIN sentMessages :
        /\ i < j
        /\ sentMessages[i].duplicate
        /\ ~sentMessages[j].duplicate
        /\ message_identifier <= i

\* ------------------------------------------------------------------ C10
\* C10: every identifier in use lies in [1, maxMessageIdentifier), and so does
\* the probing counter.
C10_IdentifiersInRange ==
    /\ message_identifier \in 1..(maxMessageIdentifier - 1)
    /\ \A i \in DOMAIN sentMessages : i \in 1..(maxMessageIdentifier - 1)

\* ------------------------------------------------------------------ C11
\* C11: an API call made in the wrong connection state (connect while connected
\* or while a transport exists; subscribe, unsubscribe or send while not
\* connected; disconnect while no transport exists) throws to its caller and
\* does nothing else: connection state, connectOptions, hostIndex, send queue,
\* in-flight tables, identifier counter, durable store and timers are as
\* before and nothing is written to the transport.
WrongStateCall ==
    /\ Len(log) >= 1
    /\ log[1].kind = "call"
    /\ \/ log[1].name = "connect" /\ (log[1].connected \/ log[1].socket # "none")
       \/ log[1].name \in {"subscribe", "unsubscribe", "send"} /\ ~log[1].connected
       \/ log[1].name = "disconnect" /\ log[1].socket = "none"
C11_WrongStateCallFails ==
    [][WrongStateCall' =>
        /\ Len(log') = 2
        /\ log'[2].kind = "throw"
        /\ UNCHANGED <<connected, socket, connectOptions, hostIndex, msg_queue,
                       notify_msg_sent, sentMessages, receivedMessages, lsSent,
                       lsReceived, message_identifier, sequence, connectTimeout,
                       delivered>>]_vars
\* connect() was refused while a transport was open but not yet connected.
C11_Witness ==
    /\ WrongStateCall
    /\ log[1].name = "connect"
    /\ ~log[1].connected
    /\ log[1].socket = "open"

\* ------------------------------------------------------------------ C12
\* C12: disconnect() called while connected hands the DISCONNECT to the
\* transport and tears down in the same step: exactly one packet is written,
\* the DISCONNECT; onConnectionLost then fires once with errorCode 0; the
\* client ends not connected with its transport detached.
DisconnectWhileConnected ==
    /\ Handler = "disconnect"
    /\ log[1].connected
C12_DisconnectTearsDown ==
    DisconnectWhileConnected =>
        /\ Len(log) = 3
        /\ IsTx(log[2], "DISCONNECT")
        /\ log[3].kind = "cb" /\ log[3].name = "onConnectionLost" /\ log[3].code = ERROR_OK
        /\ ~connected
        /\ socket = "none"
\* The same for a client that is connected with its transport attached.
C12_AttachedDisconnectTearsDown ==
    (Handler = "disconnect" /\ Attached(log[1])) => C12_DisconnectTearsDown

\* ------------------------------------------------------------------ C13
\* The engine as the handling of the packet at log[k] left it: as the next
\* packet of the chunk found it, or as it is now.
After(k) ==
    IF \E j \in DOMAIN log : j > k /\ log[j].kind = "rx"
    THEN log[CHOOSE j \in DOMAIN log :
                /\ j > k /\ log[j].kind = "rx"
                /\ \A i \in DOMAIN log : (i > k /\ log[i].kind = "rx") => j <= i]
    ELSE [connected |-> connected, socket |-> socket, hostIndex |-> hostIndex,
          mqttVersion |-> connectOptions.mqttVersion]
IsOpened(e, wsurl) == e.kind = "ws" /\ e.code = wsurl
IsConnectFailure(e) ==
    e.kind = "cb" /\ e.name = "onFailure" /\ e.code = ERROR_CONNACK_RETURNCODE
\* A CONNACK with a non-zero return code is handled during a connect attempt.
Refused(k) == IsRx(log[k], "CONNACK") /\ log[k].code # 0 /\ ~log[k].connected
NothingReplayed(k) ==
    /\ ~After(k).connected
    /\ Count(Segment(log, k), LAMBDA e : e.kind = "tx") = 0
    /\ Count(Segment(log, k), LAMBDA e : e.kind = "cb" /\ e.name = "onSuccess") = 0
\* C13 (as stated): a CONNACK with a non-zero return code ends the connect
\* call: onFailure is invoked with CONNACK_RETURNCODE, no further transport is
\* opened, the client is not connected and nothing is replayed.
C13_RefusalIsTerminal ==
    \A k \in DOMAIN log :
        Refused(k) =>
            /\ NothingReplayed(k)
            /\ Count(Segment(log, k), IsConnectFailure) = 1
            /\ Count(Segment(log, k), LAMBDA e : e.kind = "ws") = 0
            /\ After(k).socket = "none"
\* C13 (amended): a CONNACK with a non-zero return code handled during a
\* connect attempt never marks the client connected and replays nothing; if a
\* later candidate URI remains the engine opens it and calls nothing; else if
\* mqttVersion is 4 and was not pinned it reopens the first candidate with
\* version 3 and calls nothing; only otherwise onFailure is invoked, once, with
\* CONNACK_RETURNCODE, and no transport is left.
C13_RefusalFailsOver ==
    \A k \in DOMAIN log :
        Refused(k) =>
            LET uris == connectOptions.uris
                first == IF uris > 0 THEN 0 ELSE Undefined
                seg == Segment(log, k)
            IN  /\ NothingReplayed(k)
                /\ Len(seg) = 1
                /\ IF uris > 0 /\ log[k].hostIndex < uris - 1
                   THEN /\ IsOpened(seg[1], log[k].hostIndex + 1)
                        /\ After(k).hostIndex = log[k].hostIndex + 1
                        /\ After(k).mqttVersion = log[k].mqttVersion
                        /\ After(k).socket = "new"
                   ELSE IF log[k].mqttVersion = 4 /\ ~connectOptions.mqttVersionExplicit
                   THEN /\ IsOpened(seg[1], first)
                        /\ After(k).mqttVersion = 3
                        /\ After(k).socket = "new"
                   ELSE /\ IsConnectFailure(seg[1])
                        /\ After(k).socket = "none"
\* A refusal was handled while a later candidate remained.
C13_Witness ==
    \E k \in DOMAIN log :
        /\ Refused(k)
        /\ connectOptions.uris > 0
        /\ log[k].hostIndex < connectOptions.uris - 1

\* ------------------------------------------------------------------ C14
\* An attempt ends at transport level (socket error, socket close or connect
\* timeout) while a later candidate URI remains.
TransportFailure ==
    /\ Handler \in {"onerror", "onclose", "connectTimeout"}
    /\ connectOptions.uris > 0
    /\ log[1].hostIndex < connectOptions.uris - 1
\* C14: an accepted connect with a candidate list opens candidate 0; when an
\* attempt fails at transport level and a later candidate remains, the engine
\* opens the next candidate in the same step, keeps the protocol version and
\* invokes no application callback.
C14_CandidatesInOrder ==
    /\ (Handler = "connect" /\ Len(log) = 2 /\ log[2].kind = "ws" /\ connectOptions.uris > 0)
           => /\ IsOpened(log[2], 0)
              /\ hostIndex = 0
              /\ socket = "new"
    /\ TransportFailure
           => /\ Len(log) = 2
              /\ IsOpened(log[2], log[1].hostIndex + 1)
              /\ hostIndex = log[1].hostIndex + 1
              /\ connectOptions.mqttVersion = log[1].mqttVersion
              /\ socket = "new"
              /\ ~connected
C14_Witness == TransportFailure /\ Handler = "connectTimeout" /\ Len(log) = 2

\* ------------------------------------------------------------------ C15
\* The connect call in progress has invoked its onSuccess or its onFailure.
Resolved == call.onSuccess > 0 \/ call.onFailure > 0
\* C15 (resolution): every accepted connect call eventually invokes its
\* onSuccess or its onFailure.
C15_ConnectResolves == (call.transports > 0) ~> Resolved
\* C15 (outcome of a resolution): onSuccess is invoked with the client
\* connected, onFailure with the client not connected and without a transport.
C15_ResolvedState ==
    \A i \in DOMAIN log :
        /\ (log[i].kind = "cb" /\ log[i].name = "onSuccess") => log[i].connected
        /\ (log[i].kind = "cb" /\ log[i].name = "onFailure")
               => ~log[i].connected /\ log[i].socket = "none"
\* C15 (resources): a connect call over N candidates opens at most N
\* transports when mqttVersion was pinned and at most 2N when it was not.
C15_TransportsBounded ==
    LET N == IF connectOptions.uris > 0 THEN connectOptions.uris ELSE 1
    IN  call.transports <= IF connectOptions.mqttVersionExplicit THEN N ELSE 2 * N
\* A connect call has ended unresolved: no attempt is in flight.
C15_Unresolved == call.transports > 0 /\ socket = "none" /\ ~connected /\ ~Resolved

\* ------------------------------------------------------------------ C16
\* The event at log[i] is the transport opened by the downgrade to version 3.
IsDowngrade(i) ==
    /\ i > 1
    /\ log[i].kind = "ws"
    /\ log[i].call.downgrades > log[i - 1].call.downgrades
\* An attempt of a connect call with mqttVersion pinned ends at transport
\* level with no later candidate left.
PinnedFailure ==
    /\ Handler \in {"onerror", "onclose", "connectTimeout"}
    /\ ~log[1].connected
    /\ connectOptions.mqttVersionExplicit
    /\ ~(connectOptions.uris > 0 /\ log[1].hostIndex < connectOptions.uris - 1)
\* C16: the downgrade from version 4 to version 3 happens at most once per
\* connect call, only when mqttVersion was not pinned and the call never
\* reached connected, and it invokes no callback; with mqttVersion pinned there
\* is no downgrade and the first terminal failure invokes onFailure.
C16_DowngradeOnce ==
    /\ \A i \in DOMAIN log :
           IsDowngrade(i) =>
               /\ log[i - 1].call.downgrades = 0
               /\ log[i - 1].mqttVersion = 4 /\ log[i].mqttVersion = 3
               /\ ~connectOptions.mqttVersionExplicit
               /\ ~log[i - 1].call.reached
               /\ log[i - 1].kind \in {"call", "rx"}
               /\ i < Len(log) => log[i + 1].kind = "rx"
    /\ connectOptions.mqttVersionExplicit => call.downgrades = 0
    /\ PinnedFailure
           => /\ Len(log) = 2
              /\ log[2].kind = "cb" /\ log[2].name = "onFailure"
              /\ socket = "none" /\ ~connected
C16_Downgraded == \E i \in DOMAIN log : IsDowngrade(i)

\* ------------------------------------------------------------------ C17
\* connect() with a candidate list is accepted after an earlier call.
Reconnect ==
    /\ Handler = "connect"
    /\ Len(log) = 2 /\ log[2].kind = "ws"
    /\ connectOptions.uris > 0
\* C17 (as stated): after a connect succeeded on candidate i, a later
\* reconnect starts at candidate i.
C17_ReconnectAtSuccessful ==
    (Reconnect /\ log[1].call.succeeded >= 0) => IsOpened(log[2], log[1].call.succeeded)
\* C17 (amended): a successful CONNACK moves hostIndex to the end of the
\* candidate list: it is there when onSuccess is invoked and for as long as the
\* client is connected, so that no candidate remains for a later teardown; the
\* successful index is not kept, and a later connect() with a candidate list
\* starts at candidate 0.
C17_SuccessEndsFailover ==
    /\ \A i \in DOMAIN log :
           (log[i].kind = "cb" /\ log[i].name = "onSuccess" /\ connectOptions.uris > 0)
               => log[i].hostIndex = connectOptions.uris
    /\ (connected /\ connectOptions.uris > 0) => hostIndex = connectOptions.uris
    /\ Reconnect => IsOpened(log[2], 0) /\ hostIndex = 0
\* A reconnect after a connect that had succeeded on a later candidate.
C17_Witness == Reconnect /\ log[1].call.succeeded > 0

\* ------------------------------------------------------------------ C18
TimeoutCodes == {ERROR_SUBSCRIBE_TIMEOUT, ERROR_UNSUBSCRIBE_TIMEOUT}
IsTimeoutFailure(e) ==
    /\ e.kind = "cb"
    /\ e.name \in {"subscribe.onFailure", "unsubscribe.onFailure"}
    /\ e.code \in TimeoutCodes
\* The step handles the SUBACK of a SUBSCRIBE, or the UNSUBACK of an
\* UNSUBSCRIBE, that is in sentMessages and was issued with a timeout.
AckedId == log'[2].messageIdentifier
AckedUid == sentMessages[AckedId].uid
IsAck ==
    /\ Len(log') >= 2
    /\ log'[1].name = "onmessage"
    /\ log'[2].kind = "rx" /\ log'[2].name \in {"SUBACK", "UNSUBACK"}
    /\ AckedId \in DOMAIN sentMessages
    /\ sentMessages[AckedId].type = IF log'[2].name = "SUBACK" THEN "SUBSCRIBE" ELSE "UNSUBSCRIBE"
    /\ AckedUid \in DOMAIN operations
    /\ operations[AckedUid].timeOut # "none"
IsSuccess(e, uid) ==
    /\ e.kind = "cb"
    /\ e.name \in {"subscribe.onSuccess", "unsubscribe.onSuccess"}
    /\ e.uid = uid
\* Acknowledged before the timer fires: the timer is cancelled.
AckCancels ==
    (IsAck /\ operations[AckedUid].timeOut = "armed")
        => /\ operations'[AckedUid].timeOut = "cancelled"
           /\ AckedId \notin DOMAIN sentMessages'
           /\ \A i \in DOMAIN log' : ~IsTimeoutFailure(log'[i])
\* A cancelled timer stays cancelled, and the timeout failure is reported
\* only by a timer that was armed and has now fired.
CancelledNeverFires ==
    /\ \A u \in DOMAIN operations :
           operations[u].timeOut = "cancelled"
               => u \in DOMAIN operations' /\ operations'[u].timeOut = "cancelled"
    /\ \A i \in DOMAIN log' :
           IsTimeoutFailure(log'[i])
               => /\ log'[1].name = "timeOut"
                  /\ operations[log'[i].uid].timeOut = "armed"
                  /\ operations'[log'[i].uid].timeOut = "fired"
\* The timer fires: the failure callback gets the timeout error and the entry
\* stays outstanding.
TimerFires ==
    (Len(log') >= 1 /\ log'[1].name = "timeOut")
        => /\ Len(log') = 2
           /\ IsTimeoutFailure(log'[2])
           /\ log'[2].code = IF operations[log'[2].uid].type = "SUBSCRIBE"
                             THEN ERROR_SUBSCRIBE_TIMEOUT ELSE ERROR_UNSUBSCRIBE_TIMEOUT
           /\ UNCHANGED <<sentMessages, lsSent, connected, socket, msg_queue>>
\* Timers are independent: a timer firing or an acknowledgment changes the
\* timer and the callbacks of one operation only.
TimersIndependent ==
    /\ (Len(log') >= 1 /\ log'[1].name = "timeOut")
           => \A u \in DOMAIN operations :
                  u # log'[2].uid => operations'[u] = operations[u]
    /\ IsAck => \A u \in DOMAIN operations :
                  u # AckedUid => operations'[u] = operations[u]
C19_CallbacksAtMostOnce ==
    /\ call.onSuccess <= 1
    /\ call.onFailure <= 1
    /\ \A u \in DOMAIN operations :
           operations[u].onSuccess <= 1 /\ operations[u].onFailure <= 1

\* ------------------------------------------------------------------ C20
\* The bytes that have arrived, and how many of the packets sent are complete
\* in them.
Arrived == SubSeq(Frames(wire.packets), 1, Len(Frames(wire.packets)) - Len(wire.bytes))
RECURSIVE Complete(_, _)
Complete(ps, n) ==
    IF ps = <<>> \/ Len(Frame(Head(ps))) > n THEN 0
    ELSE 1 + Complete(Tail(ps), n - Len(Frame(Head(ps))))
\* C20: whatever the split into chunks, the packets deframed so far are the
\* packets whose last byte has arrived, each once and in order; the bytes of
\* the incomplete packet are retained; decoding a truncated packet returns
\* null with the offset it was given.
C20_DeframingIndependent ==
    LET k == Complete(wire.packets, Len(Arrived))
        consumed == Len(Frames(SubSeq(wire.packets, 1, k)))
    IN  /\ wire.handled = SubSeq(wire.packets, 1, k)
        /\ receiveBuffer = SubSeq(Arrived, consumed + 1, Len(Arrived))
        /\ consumed < Len(Arrived)
               => decodeMessage(Arrived, consumed) = notDecoded(consumed)
        /\ wire.bytes = <<>> => wire.handled = wire.packets /\ receiveBuffer = <<>>
\* A CONNACK split after 3 bytes: no packet after the first chunk.
C20_WitnessSplit ==
    /\ Len(wire.packets) = 2
    /\ wire.packets[2].type = TYPE_CONNACK
    /\ Len(wire.handled) = 1
    /\ Len(receiveBuffer) = 3
    /\ wire.last = 0
\* ... and one packet after the second, completed from the retained bytes.
C20_Witness ==
    /\ Len(wire.packets) = 2
    /\ wire.packets[2].type = TYPE_CONNACK
    /\ wire.handled = wire.packets
    /\ wire.last = 1
    /\ wire.bytes = <<>>

\* C20 on the first transport of a client.
C20_FirstTransport == wire.transport = 1 => C20_DeframingIndependent

\* ------------------------------------------------------------------ C21
\* The handlers the event loop runs: socket events and timers.
AsyncHandlers ==
    {"onopen", "onmessage", "onerror", "onclose", "connectTimeout", "timeOut",
     "doPing", "doPing (replaced Pinger)"}
Escaped == \E i \in DOMAIN log : log[i].kind = "throw"
\* C21: no handler of inbound data, of a socket event or of a timer ends with
\* an exception that nothing caught: an error in deframing or in packet
\* handling ends in teardown and the handler returns normally.
C21_NoUnhandledException == Handler \in AsyncHandlers => ~Escaped
\* What holds: when deframing has returned packets, nothing escapes the
\* handling of one packet, whatever the packet.
C21_PacketErrorsCaught ==
    (Handler = "onmessage" /\ \E i \in DOMAIN log : log[i].kind = "rx") => ~Escaped
\* A PUBCOMP for an identifier that is not in flight has been handled: the
\* TypeError was caught and the connection torn down with INTERNAL_ERROR.
C21_CaughtReached ==
    /\ Handler = "onmessage"
    /\ \E i \in DOMAIN log : IsRx(log[i], "PUBCOMP") /\ ~log[i].inSent
    /\ \E i \in DOMAIN log : log[i].kind = "cb" /\ log[i].code = ERROR_INTERNAL_ERROR
    /\ socket = "none"

\* ------------------------------------------------------------------ C22
PingsSent(l) == Cardinality({i \in DOMAIN l : IsTx(l[i], "PINGREQ")})
PingTimeout(l) ==
    \E i \in DOMAIN l : l[i].kind = "cb" /\ l[i].code = ERROR_PING_TIMEOUT
\* An interval has elapsed: the timer of a Pinger has just fired.
IntervalElapsed(l) == l # <<>> /\ l[1].name \in {"doPing", "doPing (replaced Pinger)"}
\* A handler that has handled a PINGRESP as its last packet.
PingRespHandled(l) ==
    /\ l # <<>>
    /\ l[1].name = "onmessage"
    /\ \E i \in DOMAIN l : IsRx(l[i], "PINGRESP") /\ \A j \in (i + 1)..Len(l) : l[j].kind # "rx"
\* The rules of the keepalive, for one handler run.
KeepAliveStep ==
    /\ (IntervalElapsed(log') /\ sendPinger.isReset) =>
            /\ PingsSent(log') = 1
            /\ ~PingTimeout(log')
            /\ socket' = "open"
            /\ sendPinger'.armed /\ ~sendPinger'.isReset
    /\ (IntervalElapsed(log') /\ ~sendPinger.isReset) =>
            /\ PingsSent(log') = 0
            /\ PingTimeout(log')
            /\ socket' = "none"
            /\ ~sendPinger'.armed
    /\ (PingRespHandled(log') /\ sendPinger.armed /\ ~sendPinger.isReset) =>
            /\ ~PingTimeout(log')
            /\ sendPinger'.armed /\ sendPinger'.isReset
    /\ ~IntervalElapsed(log') => (PingsSent(log') = 0 /\ ~PingTimeout(log'))
    /\ connectOptions'.keepAliveInterval = 0 =>
            (PingsSent(log') = 0 /\ ~PingTimeout(log') /\ ~sendPinger'.armed)
\* C22: with a positive keepAliveInterval, an interval that elapses after a
\* reset (a transmission or a PINGRESP) sends exactly one PINGREQ and sets the
\* timer again; an interval that elapses after that PINGREQ without a reset
\* tears the connection down with PING_TIMEOUT; a PINGRESP handled in between
\* prevents the timeout and sets the timer again.  With keepAliveInterval = 0
\* no PINGREQ is sent and no ping timeout occurs.
C22_KeepAlive == [][KeepAliveStep]_vars
\* The cases of C22 have happened: a PINGREQ sent, a timeout, a PINGRESP in
\* time.
C22_PingSent == IntervalElapsed(log) /\ PingsSent(log) = 1 /\ connected
C22_TimedOut == IntervalElapsed(log) /\ PingTimeout(log)
C22_Answered ==
    PingRespHandled(log) /\ sendPinger.armed /\ sendPinger.isReset /\ connected
\* With one packet per message event a Pinger is never replaced while its
\* timer is set, and a timer is set only while the socket is open.
C22_TimerNeedsSocket ==
    /\ orphans = NoOrphans
    /\ sendPinger.armed => socket = "open"

\* ------------------------------------------------------------------ C23
\* The identifiers of the QoS 1 and 2 PUBLISH messages in _sentMessages.
SentPublishes == {id \in DOMAIN sentMessages : sentMessages[id].type = "PUBLISH"}
\* C23: when a handler has returned (or has thrown), the PUBLISH identifiers
\* in _sentMessages are those of the Sent: records of the store, the
\* identifiers in _receivedMessages are those of the Received: records, and
\* each Sent: record has the pubRecReceived flag of the message in memory.
C23_WriteThrough ==
    /\ SentPublishes = DOMAIN lsSent
    /\ DOMAIN receivedMessages = DOMAIN lsReceived
    /\ \A id \in SentPublishes \cap DOMAIN lsSent :
            lsSent[id].pubRecReceived = sentMessages[id].pubRecReceived
\* The part about inbound messages holds.
C23_ReceivedWriteThrough == DOMAIN receivedMessages = DOMAIN lsReceived

\* ------------------------------------------------------------------ C24
\* The records of localStorage that client c wrote.
RecordsOf(c, storage) == {storage[key] : key \in {k \in DOMAIN storage : storage[k].owner = c}}
\* One operation on the shared store keeps the sessions apart.
IsolatedStep ==
    /\ storageOp'.op = "new" =>
            storageOp'.restored = RecordsOf(storageOp'.client, localStorage)
    /\ \A key \in DOMAIN localStorage :
            localStorage[key].owner # storageOp'.client =>
                (key \in DOMAIN localStorage' /\ localStorage'[key] = localStorage[key])
\* C24: a client restores exactly the records that a client of the same
\* (host, port, path, clientId) stored, and it neither overwrites nor removes
\* a record of a client whose identity differs.
C24_SessionIsolation == [][IsolatedStep]_vars

\* ------------------------------------------------------------------ C25
IsLost(e) == e.kind = "cb" /\ e.name = "onConnectionLost"
IsFailure(e) == e.kind = "cb" /\ e.name = "onFailure"
\* The code of the failure that a handler reports by itself.
HandlerCode ==
    CASE Handler = "onerror" -> ERROR_SOCKET_ERROR
      [] Handler = "onclose" -> ERROR_SOCKET_CLOSE
      [] Handler = "connectTimeout" -> ERROR_CONNECT_TIMEOUT
      [] Handler \in {"doPing", "doPing (replaced Pinger)"} -> ERROR_PING_TIMEOUT
      [] OTHER -> Undefined
\* onConnectionLost is invoked only for a connection that a CONNACK with return
\* code 0 established and that has not been reported lost yet.
C25_LostOnlyAfterSuccess ==
    \A i \in DOMAIN log : IsLost(log[i]) => log[i].call.established
\* Its errorCode is 0 exactly when the teardown follows the DISCONNECT that a
\* disconnect() call wrote, and the code of the failure otherwise.
C25_LostCode ==
    \A i \in DOMAIN log :
        IsLost(log[i]) =>
            /\ (log[i].code = ERROR_OK) = (i > 1 /\ IsTx(log[i - 1], "DISCONNECT"))
            /\ (log[i].code # ERROR_OK /\ HandlerCode # Undefined) => log[i].code = HandlerCode
\* C25: a teardown reports to one callback, chosen by whether the connection
\* had been established: onConnectionLost (once, and no connect onFailure) if a
\* CONNACK with return code 0 had been handled, connect onFailure (once, and no
\* onConnectionLost) if the client never reached connected and neither failover
\* nor downgrade remained; onConnectionLost is not invoked unless a CONNACK
\* success occurred since the previous one.
C25_OneCallbackPerTeardown ==
    /\ C25_LostOnlyAfterSuccess
    /\ C25_LostCode
    /\ \A i \in DOMAIN log : IsFailure(log[i]) => ~log[i].call.reached
    /\ (socket = "none" /\ call.transports > 0) =>
            IF call.reached
            THEN ~call.established /\ call.onFailure = 0
            ELSE call.onFailure = 1

\* ------------------------------------------------------------------ C26
UnexpectedNames ==
    {"CONNECT", "SUBSCRIBE", "UNSUBSCRIBE", "PINGREQ", "DISCONNECT", "RESERVED"}
IsUnexpected(e) == e.kind = "rx" /\ e.name \in UnexpectedNames
\* What _disconnected(INVALID_MQTT_MESSAGE_TYPE) leaves in the log: the
\* callback that reports the code, or the new WebSocket of a failover or of a
\* downgrade.
IsInvalidTypeTeardown(events) ==
    /\ Len(events) = 1
    /\ \/ /\ events[1].kind = "cb"
          /\ events[1].name \in {"onConnectionLost", "onFailure"}
          /\ events[1].code = ERROR_INVALID_MQTT_MESSAGE_TYPE
          /\ events[1].socket = "none"
       \/ events[1].kind = "ws"
    /\ ~events[1].connected
\* A message event whose packets are all of types a client is never sent.
OnlyUnexpected(l) ==
    /\ l # <<>>
    /\ l[1].name = "onmessage"
    /\ \E i \in DOMAIN l : l[i].kind = "rx"
    /\ \A i \in DOMAIN l : l[i].kind = "rx" => IsUnexpected(l[i])
UnexpectedStep ==
    /\ \A i \in DOMAIN log' :
            IsUnexpected(log'[i]) => IsInvalidTypeTeardown(Segment(log', i))
    /\ OnlyUnexpected(log') =>
            /\ sentMessages' = sentMessages
            /\ receivedMessages' = receivedMessages
            /\ lsSent' = lsSent /\ lsReceived' = lsReceived
            /\ socket' # "open" /\ ~connected'
            /\ msg_queue' = <<>>
\* C26: an inbound DISCONNECT, CONNECT, SUBSCRIBE, UNSUBSCRIBE, PINGREQ or a
\* packet of a reserved type is fatal: handling it runs the teardown with
\* INVALID_MQTT_MESSAGE_TYPE and leaves _sentMessages and _receivedMessages
\* as they were.
C26_UnexpectedTypeIsFatal == [][UnexpectedStep]_vars
\* A DISCONNECT from the broker has been handled on an established connection
\* with a message in flight: onConnectionLost reported the code, the message
\* is still in flight.
C26_Witness ==
    /\ OnlyUnexpected(log)
    /\ \E i \in DOMAIN log : IsRx(log[i], "DISCONNECT") /\ log[i].connected
    /\ \E i \in DOMAIN log : IsLost(log[i]) /\ log[i].code = ERROR_INVALID_MQTT_MESSAGE_TYPE
    /\ sentMessages # Empty
    /\ socket = "none"

\* ---------------------------------------------------------------------------
\* C27  Packets that pass through the send queue are written in the order they
\* were enqueued, each at most once: over any handler, the packets written are
\* the first packets of (the queue before the handler, then the packets the
\* handler pushed, in push order), what is queued afterwards is the end of
\* that same sequence, in order, and a packet is neither written nor kept
\* only when the handler tore the connection down.  The replay of a CONNACK
\* pushes the outstanding publishes by send sequence; they follow whatever was
\* queued before.  (A new ClientImpl has a queue of its own.)
QueueKey(name, m) ==
    [name |-> name, messageIdentifier |-> m.messageIdentifier, qos |-> m.qos, uid |-> m.uid]
QueueKeys(q) == [i \in DOMAIN q |-> QueueKey(q[i].type, q[i])]
ThroughQueue(e) == e.kind = "tx" /\ e.name \notin {"CONNECT", "PINGREQ"}
Written(l) ==
    LET w == SelectSeq(l, ThroughQueue) IN [i \in DOMAIN w |-> QueueKey(w[i].name, w[i])]
TornDown(l) ==
    \E i \in DOMAIN l :
        IsLost(l[i]) \/ IsFailure(l[i]) \/ (l[i].kind = "ws" /\ l[1].name # "connect")
QueueBefore == QueueKeys(msg_queue) \o QueueKeys(queued')
InOrderStep ==
    LET all == QueueBefore
        w == Written(log')
        rest == QueueKeys(msg_queue')
    IN  \/ log'[1].name = "new ClientImpl"
        \/ /\ Len(w) <= Len(all)
           /\ w = SubSeq(all, 1, Len(w))
           /\ \E k \in Len(w)..Len(all) : rest = SubSeq(all, k + 1, Len(all))
NothingLostStep ==
    \/ log'[1].name = "new ClientImpl"
    \/ TornDown(log')
    \/ Len(Written(log')) + Len(msg_queue') >= Len(QueueBefore)
C27_Fifo == [][InOrderStep /\ NothingLostStep]_vars
\* The order alone: what is written is written in the order of the queue, and
\* nothing twice.
C27_InOrder == [][InOrderStep]_vars
\* A CONNACK flushes a packet queued before it and then the publish it replays.
C27_Flushed ==
    /\ Handler = "onmessage"
    /\ Len(Written(log)) >= 2
    /\ Len(queued) >= 1
    /\ Written(log)[1].name \in {"PUBREC", "PUBCOMP", "PUBREL"}
    /\ Written(log)[Len(Written(log))].name = "PUBLISH"

\* ---------------------------------------------------------------------------
\* C28  The codec round trip: for every valid WireMessage of every packet type,
\* decodeMessage(encode(m)) is a WireMessage of the same type with the same
\* messageIdentifier, topic(s), payload bytes, QoS, DUP and RETAIN flags and
\* return codes, and its end offset is the length of the encoding.
Topics(wireMessage) ==
    IF "topics" \in DOMAIN wireMessage
    THEN [topics |-> wireMessage.topics, requestedQos |-> wireMessage.requestedQos]
    ELSE [topics |-> <<>>, requestedQos |-> <<>>]
Significant(wireMessage) ==
    [type |-> wireMessage.type, messageIdentifier |-> wireMessage.messageIdentifier,
     destinationName |-> wireMessage.destinationName, payload |-> wireMessage.payload,
     qos |-> wireMessage.qos, duplicate |-> wireMessage.duplicate,
     retained |-> wireMessage.retained, returnCode |-> wireMessage.returnCode,
     returnCodes |-> wireMessage.returnCodes, topics |-> Topics(wireMessage)]
Decoded == wire.stage = "decoded"
SameEnd ==
    /\ ~wire.decoded.null
    /\ ~wire.decoded.thrown
    /\ wire.decoded.pos = Len(wire.buffer)
    /\ wire.decoded.wireMessage.type = wire.message.type
C28_RoundTrip ==
    Decoded => SameEnd /\ Significant(wire.decoded.wireMessage) = Significant(wire.message)
\* C28 (amended)  decodeMessage reads the body of the packets a client
\* receives and encode writes the body of the packets a client sends: the
\* round trip holds for every valid WireMessage of the types that are both
\* (PUBLISH, PUBACK, PUBREC, PUBREL, PUBCOMP), of UNSUBACK, and of the types
\* without significant fields (CONNECT, PINGREQ, PINGRESP, DISCONNECT); for
\* SUBSCRIBE and UNSUBSCRIBE (not decoded), CONNACK and SUBACK (return codes
\* not encoded) the type and the end offset alone are reproduced.
OneWayTypes == {8, 10, TYPE_CONNACK, TYPE_SUBACK}
C28_RoundTripBothWays ==
    Decoded =>
        /\ SameEnd
        /\ wire.message.type \notin OneWayTypes
           => Significant(wire.decoded.wireMessage) = Significant(wire.message)
\* A QoS 2 PUBLISH with DUP and RETAIN, a topic of a four-byte character, an
\* identifier of two bytes and a remaining length of two bytes has made the
\* round trip.
C28_PublishDecoded ==
    /\ Decoded
    /\ wire.message.type = TYPE_PUBLISH
    /\ wire.message.qos = 2
    /\ wire.message.duplicate
    /\ wire.message.retained
    /\ wire.message.destinationName = <<55357, 56832>>
    /\ wire.message.messageIdentifier = 258
    /\ Len(wire.message.payload) = MaxPayload
    /\ wire.decoded.wireMessage.destinationName = <<55357, 56832>>
    /\ wire.decoded.wireMessage.payload = wire.message.payload

\* ---------------------------------------------------------------------------
\* C29  The remaining length: for every n in 0..268435455, encodeMBI(n) is the
\* minimal base-128 encoding (1 to 4 bytes, the continuation bit 0x80 set on
\* every byte except the last) and the length loop of decodeMessage reads n
\* back from it; and a length field is never longer than 4 bytes, on encode or
\* on decode.
MinimalLength(n) ==
    IF n < 128 THEN 1 ELSE IF n < 16384 THEN 2 ELSE IF n < 2097152 THEN 3 ELSE 4
RECURSIVE Base128(_)
Base128(mbi) == IF mbi = <<>> THEN 0 ELSE (Head(mbi) % 128) + (128 * Base128(Tail(mbi)))
IsMinimalEncoding(mbi, n) ==
    /\ Len(mbi) = MinimalLength(n)
    /\ \A i \in DOMAIN mbi : mbi[i] \in 0..255 /\ (mbi[i] >= 128 <=> i < Len(mbi))
    /\ Base128(mbi) = n
\* The bytes of the length field the decoder has consumed.
FieldRead == wire.read.pos - 1
C29_EncodedMinimalAndReadBack ==
    /\ wire.stage \in {"encoded", "read back"} => IsMinimalEncoding(wire.mbi, wire.number)
    /\ wire.stage = "read back" =>
           ~wire.read.null /\ wire.read.remLength = wire.number /\ FieldRead = Len(wire.mbi)
C29_RemainingLength ==
    /\ C29_EncodedMinimalAndReadBack
    /\ wire.stage \in {"encoded", "read back"} => Len(wire.mbi) <= 4
    /\ wire.stage \in {"read back", "read"} /\ ~wire.read.null => FieldRead <= 4
\* The largest length has been encoded in four bytes and read back.
C29_LargestReadBack ==
    /\ wire.stage = "read back"
    /\ wire.number = 268435455
    /\ wire.mbi = <<255, 255, 255, 127>>
    /\ wire.read.remLength = 268435455

\* ---------------------------------------------------------------------------
\* C30  On a CONNACK with return code 0: the connect timeout is cancelled, the
\* client is marked connected, every outstanding sentMessages entry is
\* replayed, then the connect onSuccess fires exactly once, then the send queue
\* is flushed: a packet that was queued before the CONNACK is not written
\* before onSuccess has fired, and the connect timeout cannot fire after the
\* CONNACK was handled.
IsConnackAccepted(l) ==
    /\ Len(l) >= 2
    /\ l[1].name = "onmessage"
    /\ IsRx(l[2], "CONNACK")
    /\ l[2].code = 0
ConnectSuccesses(l) == {k \in DOMAIN l : l[k].kind = "cb" /\ l[k].name = "onSuccess"}
BeforeSuccess(l, j) == \E k \in ConnectSuccesses(l) : j < k
WasQueued(e) == \E i \in DOMAIN msg_queue : QueueKeys(msg_queue)[i] = QueueKey(e.name, e)
\* The connect timeout is cancelled by the CONNACK.
TimeoutCancelledStep == IsConnackAccepted(log') => ~connectTimeout'
\* onSuccess fires once, on a connected client.
SuccessOnceStep ==
    IsConnackAccepted(log') =>
        /\ Cardinality(ConnectSuccesses(log')) = 1
        /\ \A k \in ConnectSuccesses(log') : log'[k].connected
\* The outstanding entries are written before onSuccess (the session is kept).
ReplayedFirstStep ==
    IsConnackAccepted(log') /\ ~connectOptions.cleanSession =>
        \A id \in DOMAIN sentMessages :
            \E j \in DOMAIN log' :
                /\ log'[j].kind = "tx"
                /\ log'[j].messageIdentifier = id
                /\ BeforeSuccess(log', j)
\* What was queued before the CONNACK is written after onSuccess only.
QueueFlushedLastStep ==
    IsConnackAccepted(log') =>
        \A j \in DOMAIN log' :
            ThroughQueue(log'[j]) /\ WasQueued(log'[j]) => ~BeforeSuccess(log', j)
C30_ConnackOrder ==
    [][TimeoutCancelledStep /\ SuccessOnceStep /\ ReplayedFirstStep /\ QueueFlushedLastStep]_vars
\* The connect timeout alone.
C30_TimeoutCancelled == [][TimeoutCancelledStep]_vars
\* The order when the CONNACK finds nothing to replay.
C30_OrderWithoutReplay ==
    [][(sentMessages = Empty \/ connectOptions.cleanSession)
        => TimeoutCancelledStep /\ SuccessOnceStep /\ QueueFlushedLastStep]_vars
\* A CONNACK has replayed a publish, called onSuccess and then written the
\* packet that was queued.
C30_FlushedAfterSuccess ==
    /\ IsConnackAccepted(log)
    /\ \E k \in ConnectSuccesses(log) :
           /\ \E j \in DOMAIN log : j > k /\ ThroughQueue(log[j])

\* ---------------------------------------------------------------------------
\* C31  For every inbound PUBLISH of QoS 0 or 1 handled while connected:
\* onMessageArrived is invoked exactly once in the handling of the packet; for
\* QoS 1 the PUBACK with the same identifier is written to the transport
\* before it; for QoS 0 nothing is written; receivedMessages and the store are
\* left as they were.
IsArrival(e) == IsRx(e, "PUBLISH") /\ e.qos \in {0, 1} /\ e.connected
PubackThenArrived(seg, id) ==
    /\ Count(seg, LAMBDA e : IsTx(e, "PUBACK") /\ e.messageIdentifier = id) = 1
    /\ \E j \in DOMAIN seg, k \in DOMAIN seg :
           /\ j < k
           /\ IsTx(seg[j], "PUBACK") /\ seg[j].messageIdentifier = id
           /\ IsArrived(seg[k])
ArrivedOnce(k) ==
    LET seg == Segment(log, k) IN
    /\ Count(seg, IsArrived) = 1
    /\ log[k].qos = 1 => PubackThenArrived(seg, log[k].messageIdentifier)
    /\ log[k].qos = 0 => Count(seg, LAMBDA e : e.kind = "tx") = 0
    /\ \A j \in DOMAIN seg : seg[j].inReceived = log[k].inReceived
C31_ArrivedOnce == \A k \in DOMAIN log : IsArrival(log[k]) => ArrivedOnce(k)
\* The frame: a message event of QoS 0 and 1 PUBLISH packets leaves
\* receivedMessages and the store alone.
OnlyArrivals(l) ==
    /\ Len(l) >= 2
    /\ l[1].name = "onmessage"
    /\ \A i \in DOMAIN l : l[i].kind = "rx" => IsArrival(l[i])
C31_ArrivalFrame ==
    [][OnlyArrivals(log') =>
          /\ receivedMessages' = receivedMessages
          /\ lsReceived' = lsReceived
          /\ lsSent' = lsSent]_vars
\* The same for a PUBLISH handled while connected with the transport open.
C31_ArrivedOnceAttached ==
    \A k \in DOMAIN log : IsArrival(log[k]) /\ Attached(log[k]) => ArrivedOnce(k)
\* A QoS 1 PUBLISH has been acknowledged and delivered.
C31_Acknowledged ==
    \E k \in DOMAIN log :
        /\ IsArrival(log[k]) /\ log[k].qos = 1
        /\ PubackThenArrived(Segment(log, k), log[k].messageIdentifier)

\* ---------------------------------------------------------------------------
\* C32  A QoS 0 send() while connected: the message is not registered in
\* sentMessages or the store, and onMessageDelivered is invoked exactly once
\* for it, not before the PUBLISH has been handed to the transport.
IsSendQos0(l) ==
    /\ Len(l) >= 2
    /\ l[1].name = "send"
    /\ l[1].connected
    /\ \E i \in DOMAIN l : l[i].name \in {"PUBLISH", "onMessageDelivered"} /\ l[i].qos = 0
DeliveredAfterTransmission(l) ==
    \A k \in DOMAIN l :
        IsDelivered(l[k], 0) =>
            \E j \in DOMAIN l : j < k /\ IsTx(l[j], "PUBLISH") /\ l[j].uid = l[k].uid
DeliveredOnce(l) == Count(l, LAMBDA e : IsDelivered(e, 0)) = 1
C32_Qos0Send == IsSendQos0(log) => DeliveredOnce(log) /\ DeliveredAfterTransmission(log)
\* The parts of C32 about the tables and the number of invocations.
C32_NotRegistered ==
    [][IsSendQos0(log') => sentMessages' = sentMessages /\ lsSent' = lsSent]_vars
C32_DeliveredOnce == IsSendQos0(log) => DeliveredOnce(log)
\* A QoS 0 message was written after its onMessageDelivered.
C32_DeliveredBeforeWritten ==
    /\ IsSendQos0(log)
    /\ \E j \in DOMAIN log, k \in DOMAIN log :
           j < k /\ IsDelivered(log[j], 0) /\ IsTx(log[k], "PUBLISH") /\ log[k].uid = log[j].uid

\* ---------------------------------------------------------------------------
\* C33  Teardown removes only non-durable state: after any teardown the send
\* queue and the sent-notification map are empty, the keepalive timer and the
\* connect timeout are cancelled and the transport is detached, while
\* sentMessages, receivedMessages and the store are as they were.
\* The handlers that are a teardown and nothing else: a socket error or close,
\* the connect timeout, a ping timeout.
IsTeardown ==
    \/ log'[1].name \in {"onerror", "onclose", "connectTimeout"}
    \/ log'[1].name = "doPing" /\ ~sendPinger.isReset
BuffersCleared == msg_queue' = <<>> /\ notify_msg_sent' = "none" /\ ~sendPinger'.armed
DurableKept ==
    /\ sentMessages' = sentMessages
    /\ receivedMessages' = receivedMessages
    /\ lsSent' = lsSent
    /\ lsReceived' = lsReceived
Detached == socket' = "none" /\ ~connectTimeout'
C33_TeardownFrame == [][IsTeardown => BuffersCleared /\ DurableKept /\ Detached]_vars
\* C33 (amended)  When the teardown moves on to the next candidate URI, or
\* falls back from mqttVersion 4 to 3, it ends by opening a transport and
\* setting a connect timeout for the new attempt; otherwise the transport is
\* detached and no connect timeout is left.  In every case the queue and the
\* notifications are empty, the keepalive timer is cancelled and
\* sentMessages, receivedMessages and the store are as they were.
Retried == \E i \in DOMAIN log' : log'[i].kind = "ws"
Reattached == socket' = "new" /\ connectTimeout' /\ ~connected'
C33_TeardownFrameOrRetry ==
    [][IsTeardown =>
          /\ BuffersCleared
          /\ DurableKept
          /\ IF Retried THEN Reattached ELSE Detached]_vars
\* A connection with an outstanding publish has been torn down by a close.
C33_TornDown ==
    /\ Handler = "onclose"
    /\ \E i \in DOMAIN log : IsLost(log[i])
    /\ sentMessages # Empty
    /\ lsSent # Empty
    /\ socket = "none"
    /\ msg_queue = <<>>

\* ---------------------------------------------------------------------------
\* C34  Teardown is idempotent: when the teardown routine runs again after a
\* teardown has completed (no transport, not connected), here for a refused
\* CONNACK that is a later packet of the same chunk, it opens no transport
\* and invokes no callback of the application.
\* A refused CONNACK handled on a client that is already torn down.
TornDownAgain(i) ==
    /\ IsRx(log[i], "CONNACK")
    /\ log[i].code # 0
    /\ log[i].socket = "none"
    /\ ~log[i].connected
C34_NoSecondLoss ==
    \A i \in DOMAIN log :
        TornDownAgain(i) =>
            \A j \in DOMAIN Segment(log, i) : ~IsLost(Segment(log, i)[j])
C34_TornDownTwice == \E i \in DOMAIN log : TornDownAgain(i)

\* ---------------------------------------------------------------------------
\* C35  Once a PUBREC for an outbound QoS 2 identifier has been handled, the
\* entry's pubRecReceived flag is set in memory and in its record in the same
\* step; from then until the entry is removed no PUBLISH with that
\* identifier is queued or transmitted, and a reconnect, after a restart or
\* not, resumes with PUBREL: the handler of an accepted CONNACK that leaves
\* the client connected has written the PUBREL.
Flagged(sent, id) ==
    /\ id \in DOMAIN sent
    /\ sent[id].type = "PUBLISH"
    /\ sent[id].qos = 2
    /\ sent[id].pubRecReceived
Outbound2(id) ==
    id \in DOMAIN sentMessages /\ sentMessages[id].type = "PUBLISH" /\ sentMessages[id].qos = 2
FlaggedInStore ==
    \A id \in DOMAIN sentMessages :
        Flagged(sentMessages, id) => Flagged(lsSent, id)
PubrecStep ==
    \A i \in DOMAIN log' :
        (IsRx(log'[i], "PUBREC") /\ Outbound2(log'[i].messageIdentifier)) =>
            /\ Flagged(sentMessages', log'[i].messageIdentifier)
            /\ Flagged(lsSent', log'[i].messageIdentifier)
NoPublishStep ==
    \A id \in DOMAIN sentMessages :
        (Flagged(sentMessages, id) /\ id \in DOMAIN sentMessages') =>
            /\ Flagged(sentMessages', id)
            /\ \A i \in DOMAIN log' :
                   ~(IsTx(log'[i], "PUBLISH") /\ log'[i].messageIdentifier = id)
            /\ \A j \in DOMAIN queued' :
                   ~(queued'[j].type = "PUBLISH" /\ queued'[j].messageIdentifier = id)
ResumeStep ==
    \A i \in DOMAIN log', id \in DOMAIN sentMessages :
        (/\ IsRx(log'[i], "CONNACK")
         /\ log'[i].code = 0
         /\ log'[i].socket = "open"
         /\ Flagged(sentMessages, id)
         /\ id \in DOMAIN sentMessages'
         /\ connected'
         /\ socket' = "open") =>
            \E j \in DOMAIN log' :
                j > i /\ IsTx(log'[j], "PUBREL") /\ log'[j].messageIdentifier = id
C35_ResumesWithPubrel ==
    /\ []FlaggedInStore
    /\ [][PubrecStep /\ NoPublishStep /\ ResumeStep]_vars
\* A client restarted after the PUBREC has reconnected, and written the
\* PUBREL of the restored entry.
C35_ResumedAfterRestart ==
    /\ Handler = "onmessage"
    /\ \E id \in DOMAIN sentMessages :
           /\ Flagged(sentMessages, id)
           /\ sentMessages[id].duplicate
           /\ \E i, j \in DOMAIN log :
                  /\ i < j
                  /\ IsRx(log[i], "CONNACK")
                  /\ IsTx(log[j], "PUBREL")
                  /\ log[j].messageIdentifier = id

\* ---------------------------------------------------------------------------
\* C36  Whenever a new transport is opened (reconnect, failover, downgrade)
\* the pending receive buffer is empty: an incomplete packet left over from
\* the torn-down connection is not prepended to the first chunk of the next.
C36_BufferEmptyOnNewTransport ==
    [][wire'.transport # wire.transport => receiveBuffer' = <<>>]_vars
\* A later transport has started with bytes of the earlier one retained.
C36_StaleBytes == wire.transport > 1 /\ wire.last = 0 /\ wire.handled = <<>> /\ receiveBuffer # <<>>

\* ---------------------------------------------------------------------------
\* C37  In every reachable state isConnected() implies that a transport
\* exists; the client becomes connected only while connecting, by a CONNACK
\* with return code 0 received on the current transport, and becomes not
\* connected in the step in which the transport is detached.
isConnected == connected
ConnectedByConnack ==
    (~connected /\ connected') =>
        /\ socket = "open"
        /\ socket' = "open"
        /\ \E i \in DOMAIN log' :
               IsRx(log'[i], "CONNACK") /\ log'[i].code = 0 /\ log'[i].socket = "open"
DetachedWhenLost == (connected /\ ~connected') => socket' # "open"
C37_ConnectedHasTransport ==
    /\ [](isConnected => socket # "none")
    /\ [][ConnectedByConnack /\ DetachedWhenLost]_vars
\* A client that is connected and has no transport.
C37_ConnectedWithoutTransport == isConnected /\ socket = "none"

\* ---------------------------------------------------------------------------
\* C38  Once teardown has been triggered while handling a packet of an
\* inbound chunk, the remaining packets of the chunk are not processed: no
\* onMessageArrived, onMessageDelivered or connect onSuccess is invoked on
\* behalf of a transport that has already been torn down.
\* A packet handled when the transport that delivered it is gone.
HandledAfterTeardown(i) == log[i].kind = "rx" /\ log[i].socket # "open"
IsCompletion(e) ==
    e.kind = "cb" /\ e.name \in {"onMessageArrived", "onMessageDelivered", "onSuccess"}
C38_RestOfChunkDropped ==
    \A i \in DOMAIN log :
        HandledAfterTeardown(i) =>
            \A j \in DOMAIN Segment(log, i) : ~IsCompletion(Segment(log, i)[j])
\* What holds: nothing is written for a packet handled after the teardown.
C38_NothingWritten ==
    \A i \in DOMAIN log :
        HandledAfterTeardown(i) =>
            \A j \in DOMAIN Segment(log, i) : Segment(log, i)[j].kind # "tx"
C38_PacketAfterTeardown ==
    \E i \in DOMAIN log :
        /\ HandledAfterTeardown(i)
        /\ \E j \in DOMAIN Segment(log, i) : IsCompletion(Segment(log, i)[j])

\* ---------------------------------------------------------------------------
\* C39  An acknowledgment completes a sentMessages entry only if it is the
\* terminal acknowledgment for the entry's kind: an acknowledgment of another
\* type with the identifier of an outstanding entry neither removes the entry
\* nor invokes its completion callback, and onMessageDelivered is only
\* invoked with a message the application passed to send().
Terminal(sentMessage) ==
    IF sentMessage.type = "PUBLISH"
    THEN (IF sentMessage.qos = 2 THEN "PUBCOMP" ELSE "PUBACK")
    ELSE IF sentMessage.type = "SUBSCRIBE" THEN "SUBACK" ELSE "UNSUBACK"
Acknowledgments == {"PUBACK", "PUBREC", "PUBCOMP", "SUBACK", "UNSUBACK"}
IsCompleted(e) ==
    /\ e.kind = "cb"
    /\ e.name \in {"onMessageDelivered", "subscribe.onSuccess", "subscribe.onFailure",
                   "unsubscribe.onSuccess"}
\* The acknowledgment handled is not the terminal one of the entry it names.
OtherAck(e) ==
    /\ e.kind = "rx"
    /\ e.name \in Acknowledgments
    /\ e.messageIdentifier \in DOMAIN sentMessages
    /\ e.name # Terminal(sentMessages[e.messageIdentifier])
OtherAckStep ==
    \A i \in DOMAIN log' :
        OtherAck(log'[i]) =>
            /\ log'[i].messageIdentifier \in DOMAIN sentMessages'
            /\ \A j \in DOMAIN log' : ~IsCompleted(log'[j])
DeliveredWasSent ==
    \A i \in DOMAIN log' :
        (log'[i].kind = "cb" /\ log'[i].name = "onMessageDelivered") =>
            log'[i].uid \notin DOMAIN operations'
C39_TerminalAckOnly == [][OtherAckStep /\ DeliveredWasSent]_vars
\* What holds: a PUBREC removes no entry and completes nothing.
C39_PubrecCompletesNothing ==
    [][\A i \in DOMAIN log' :
           (OtherAck(log'[i]) /\ log'[i].name = "PUBREC") =>
               /\ log'[i].messageIdentifier \in DOMAIN sentMessages'
               /\ \A j \in DOMAIN log' : ~IsCompleted(log'[j])]_vars
\* An entry has been removed by an acknowledgment of another packet type.
C39_RemovedByOtherAck ==
    /\ Handler = "onmessage"
    /\ \E i \in DOMAIN log :
           /\ IsRx(log[i], "SUBACK")
           /\ log[i].inSent
           /\ log[i].inStore
           /\ log[i].messageIdentifier \notin DOMAIN sentMessages
           /\ log[i].messageIdentifier \in DOMAIN lsSent

\* ---------------------------------------------------------------------------
\* C40  Every outbound PUBLISH written a second or later time for the same
\* outstanding identifier carries duplicate = true, whether the entry was
\* restored from the store after a restart or stayed in memory across a
\* teardown and reconnect; the first transmission carries duplicate = false.
\* send() requires a connected client and writes the PUBLISH it registers, so
\* an entry of sentMessages that a later handler writes is written again.
WrittenAgain(e) ==
    /\ IsTx(e, "PUBLISH")
    /\ log'[1].name = "onmessage"
    /\ e.messageIdentifier \in DOMAIN sentMessages
    /\ sentMessages[e.messageIdentifier].type = "PUBLISH"
WrittenFirst(e) == IsTx(e, "PUBLISH") /\ log'[1].name = "send"
RetransmittedStep == \A i \in DOMAIN log' : WrittenAgain(log'[i]) => log'[i].duplicate
FirstStep == \A i \in DOMAIN log' : WrittenFirst(log'[i]) => ~log'[i].duplicate
C40_DupOnRetransmission == [][RetransmittedStep /\ FirstStep]_vars
\* What holds: the first transmission has duplicate = false, and an entry
\* restored from the store is written with duplicate = true.
C40_DupAfterRestart ==
    [][/\ FirstStep
       /\ log'[1].name = "new ClientImpl" =>
              \A id \in DOMAIN sentMessages' : sentMessages'[id].duplicate
       /\ \A i \in DOMAIN log' :
              (WrittenAgain(log'[i]) /\ sentMessages[log'[i].messageIdentifier].duplicate)
                  => log'[i].duplicate]_vars
\* A PUBLISH kept in memory across a reconnect has been written again
\* without the DUP flag.
C40_ResentWithoutDup ==
    /\ Handler = "onmessage"
    /\ \E i, j \in DOMAIN log :
           /\ i < j
           /\ IsRx(log[i], "CONNACK")
           /\ IsTx(log[j], "PUBLISH")
           /\ log[j].inSent
           /\ ~log[j].duplicate

====
